---- MODULE Spec2Model ----
(***************************************************************************)
(* Request-scoped observability middleware of the LGTM demo services.      *)
(*                                                                         *)
(* One service process is modelled at a time (gateway, order-service or    *)
(* payment-service), with one of the two request trackers the repository   *)
(* installs on it:                                                         *)
(*   "prom" - createObservabilityMiddleware(logger) of metrics.js          *)
(*            (Prometheus registry gauge/counter/histogram + winston logs) *)
(*   "otel" - the inline "active requests tracking middleware" of app.js   *)
(*            (OpenTelemetry up-down counter activeRequestsGauge)          *)
(*                                                                         *)
(* Node runs every callback to completion on one thread, so each action    *)
(* below is one callback: the arrival of a request (middleware + the       *)
(* synchronous prefix of the route handler), the resumption of a handler   *)
(* after an await, and the 'finish' and 'close' events of the response.    *)
(***************************************************************************)
EXTENDS Integers, Sequences, FiniteSets, TLC

\* ------------------------------------------------------------------------
\* Bounds
\* ------------------------------------------------------------------------
MaxReq == 2

Req == 1..MaxReq

Services == {"gateway", "order", "payment"}

Impls == {"prom", "otel"}

\* Statuses a downstream hop may answer with when axios rejects with
\* error.response (axios rejects every status outside 2xx).
DownstreamErrorStatuses == {304, 400, 499, 500, 599}

\* Outcome of the awaited axios.post: a 2xx payload, a structured error
\* response with its status, or a transport failure without a response.
DownstreamOutcomes == {200, 0} \cup DownstreamErrorStatuses

\* The requests a client sends to each service.
Inputs(s) ==
  CASE s = "gateway" -> {<<"GET", "/">>, <<"GET", "/api/fast">>,
                         <<"GET", "/api/error">>, <<"POST", "/api/order">>,
                         <<"GET", "/metrics">>, <<"GET", "/health">>}
    [] s = "order"   -> {<<"POST", "/orders">>, <<"GET", "/health">>,
                         <<"GET", "/metrics">>}
    [] s = "payment" -> {<<"POST", "/payments">>, <<"GET", "/health">>,
                         <<"GET", "/metrics">>}

\* ------------------------------------------------------------------------
\* State
\* ------------------------------------------------------------------------
VARIABLES
  svc,                 \* which service this process is
  impl,                \* which tracker is installed on it
  request,             \* request[r]: [method, path] of request r
  pc,                  \* pc[r]: where the route handler of r is suspended
  res,                 \* res[r]: [statusCode, writableEnded, finish, close, aborted]
  listening,           \* listening[r]: res.on("finish")/("close") registered
  decremented,         \* decremented[r]: the one-shot latch of the closure
  activeRequests,      \* prom-client Gauge active_requests
  activeRequestsGauge, \* OpenTelemetry up-down counter http_active_requests
  httpRequestsTotal,   \* prom-client Counter: <<method, endpoint, status>> -> n
  httpRequestDuration, \* prom-client Histogram: <<method, endpoint>> -> count
  trace,               \* trace[r]: what was done on behalf of r, in order
  crashed,             \* the process died of an uncaught exception
  chain,               \* chain[c]: order c on its way gateway -> order -> payment
  faults,              \* network faults injected into the chain so far
  now,                 \* the wall clock Date.now() reads
  domain,              \* prom-client business metrics of order- and payment-service
  proc,                \* the process: signal received, SDK shutdown, exit, console
  twin,                \* twin[r]: the latch of the inline middleware when both
                       \* trackers are mounted on one app
  script               \* the shell script an operator runs, if any

\* The state of the single service process.
serviceVars == <<svc, impl, request, pc, res, listening, decremented,
                 activeRequests, activeRequestsGauge, httpRequestsTotal,
                 httpRequestDuration, trace, crashed, proc, twin>>

\* The state of the three-hop call chain.
chainVars == <<chain, faults, now, domain>>

vars == <<serviceVars, chainVars, script>>

NoRequest == [method |-> "-", path |-> "-"]

NewRes == [statusCode |-> 200, writableEnded |-> FALSE, finish |-> FALSE,
           close |-> FALSE, aborted |-> FALSE]

\* An entry of trace[r].
Ev(e, l) == [ev |-> e, level |-> l]

\* prom-client keeps one series per label set, created on first use.
IncSeries(series, labels) ==
  IF labels \in DOMAIN series
    THEN [series EXCEPT ![labels] = @ + 1]
    ELSE series @@ (labels :> 1)

RECURSIVE SumSeries(_)
SumSeries(series) ==
  IF DOMAIN series = {} THEN 0
  ELSE LET k == CHOOSE x \in DOMAIN series : TRUE
       IN series[k] + SumSeries([x \in DOMAIN series \ {k} |-> series[x]])

\* Number of entries e in the sequence t.
CountEv(t, e) == Cardinality({i \in 1..Len(t) : t[i].ev = e})

\* Positions of the entries of t whose event is in the set es.
Positions(t, es) == {i \in 1..Len(t) : t[i].ev \in es}

\* ------------------------------------------------------------------------
\* Data of the call chain gateway -> order-service -> payment-service
\* ------------------------------------------------------------------------

\* JSON bodies are records holding exactly the fields that are present;
\* {} is the record without fields. Amounts are in hundredths.
EmptyBody == <<>>

\* Bodies a client posts to the gateway's /api/order.
ClientBodies == {[total |-> 0], [total |-> 4250], EmptyBody}

\* Values of Math.round(Math.random() * 10000) / 100.
RandomTotals == {1234}

\* Orders a client may have in flight through the three services at once.
MaxChains == 1

Chains == 1..MaxChains

\* Values Date.now() may return when an id is minted.
MaxNow == 1

Clock == 0..MaxNow

\* Network faults the environment may inject over a behaviour.
MaxFaults == 1

\* The settled state of an axios.post: status -1 not settled, 0 rejected
\* without error.response (message is error.message), else the response.
NoReply == [status |-> -1, data |-> EmptyBody, message |-> ""]

\* No traceparent header.
NoHeader == [traceId |-> <<>>, spanId |-> <<>>]

NewGateway ==
  [pc |-> "idle", res |-> NewRes, out |-> EmptyBody,
   calls |-> 0, reply |-> NoReply, late |-> FALSE]

NewOrder ==
  [pc |-> "idle", body |-> EmptyBody, header |-> NoHeader, orderId |-> <<>>,
   orderTotal |-> -1, res |-> NewRes, out |-> EmptyBody,
   calls |-> 0, reply |-> NoReply, late |-> FALSE]

NewPayment ==
  [pc |-> "idle", body |-> EmptyBody, header |-> NoHeader,
   paymentId |-> <<>>, res |-> NewRes, out |-> EmptyBody]

NewChain ==
  [body |-> EmptyBody, gw |-> NewGateway, ord |-> NewOrder,
   pay |-> NewPayment, spans |-> {}]

\* process.env is an object holding the variables that are set. The module
\* constants ORDER_SERVICE_URL / PAYMENT_SERVICE_URL / OTLP_ENDPOINT before
\* app.js and tracing.js were evaluated.
NotLoaded == [loaded |-> FALSE]

\* No shell script was started.
NoScript == [name |-> "none"]

\* The business metrics at process start: the gauges at 0, no series yet.
NewDomain ==
  [activeOrders |-> 0, ordersTotal |-> <<>>, orderDuration |-> 0,
   activePayments |-> 0, paymentsTotal |-> <<>>, paymentDuration |-> 0]

\* The variables service s reads at startup: its downstream target and the
\* trace collector. payment-service calls nobody.
EnvNames(s) ==
  CASE s = "gateway" -> {"ORDER_SERVICE_URL", "OTLP_ENDPOINT"}
    [] s = "order" -> {"PAYMENT_SERVICE_URL", "OTLP_ENDPOINT"}
    [] s = "payment" -> {"OTLP_ENDPOINT"}

\* The literal on the right of process.env.X || "..." in variant i.
DefaultOf(i, name) ==
  CASE name = "ORDER_SERVICE_URL" -> "http://order-service:8001"
    [] name = "PAYMENT_SERVICE_URL" -> "http://payment-service:8002"
    [] name = "OTLP_ENDPOINT" ->
         IF i = "prom" THEN "http://tempo:4318/v1/traces"
                       ELSE "http://alloy:4318"

\* JavaScript's process.env.X || d: d when X is unset or empty.
EnvOr(env, name, d) ==
  IF name \in DOMAIN env /\ env[name] # "" THEN env[name] ELSE d

\* The top-level const declarations of app.js and tracing.js, evaluated
\* once when the modules load.
LoadConfig(s, i, env) ==
  [loaded |-> TRUE,
   value |-> [name \in EnvNames(s) |-> EnvOr(env, name, DefaultOf(i, name))]]

\* A running process: no signal yet, sdk.shutdown() not called, nothing on
\* the console.
NewProcess ==
  [signalled |-> FALSE, shutdown |-> "idle", exited |-> FALSE,
   exitCode |-> -1, console |-> <<>>, env |-> EmptyBody, config |-> NotLoaded]

\* The service and its metrics before the first request.
InitService ==
  /\ svc \in Services
  /\ impl \in Impls
  /\ request = [r \in Req |-> NoRequest]
  /\ pc = [r \in Req |-> "new"]
  /\ res = [r \in Req |-> NewRes]
  /\ listening = [r \in Req |-> FALSE]
  /\ decremented = [r \in Req |-> FALSE]
  /\ activeRequests = 0
  /\ activeRequestsGauge = 0
  /\ httpRequestsTotal = <<>>
  /\ httpRequestDuration = <<>>
  /\ trace = [r \in Req |-> <<>>]
  /\ crashed = FALSE
  /\ faults = 0
  /\ now = 0
  /\ domain = NewDomain
  /\ twin = [r \in Req |-> FALSE]
  /\ script = NoScript

\* Everything but the process itself before the first request.
InitState ==
  /\ InitService
  /\ chain = [c \in Chains |-> NewChain]

\* A running service started without any of its variables set.
Init ==
  /\ InitState
  /\ proc = [NewProcess EXCEPT !.config = LoadConfig(svc, impl, EmptyBody)]

\* ------------------------------------------------------------------------
\* The trackers (metrics.js createObservabilityMiddleware, app.js inline)
\* ------------------------------------------------------------------------

\* Paths createObservabilityMiddleware returns early on (return next()).
SkipPaths(s) ==
  IF s = "gateway" THEN {"/metrics", "/health"} ELSE {"/metrics"}

\* Whether the middleware instruments a request to path p. The inline
\* middleware of app.js has no early return.
Tracked(i, s, p) ==
  IF i = "prom" THEN p \notin SkipPaths(s) ELSE TRUE

\* Entry instrumentation, in statement order.
EntryEvents(i) ==
  IF i = "prom"
    THEN <<Ev("activeRequests.inc", "-"), Ev("Incoming request", "info")>>
    ELSE <<Ev("activeRequestsGauge.add(1)", "-")>>

cleanup_NoLatch(d) == [decremented |-> TRUE, dec |-> 1]

cleanup_Never(d) == [decremented |-> d, dec |-> 0]

\* const cleanup = () => { if (!decremented) { decremented = true;
\* activeRequests.dec(); } }: the new latch and how much the gauge drops.
cleanup(d) ==
  [decremented |-> TRUE, dec |-> IF ~d THEN 1 ELSE 0]

decrement_NoLatch(d) == [decremented |-> TRUE, dec |-> 1]

decrement_Never(d) == [decremented |-> d, dec |-> 0]

\* const decrement = () => { if (!decremented) { decremented = true;
\* activeRequestsGauge.add(-1, ...); } } of the inline middleware.
decrement(d) ==
  [decremented |-> TRUE, dec |-> IF ~d THEN 1 ELSE 0]

logLevel_OffByOne(statusCode) ==
  IF statusCode > 500 THEN "error"
  ELSE IF statusCode > 400 THEN "warn"
  ELSE "info"

\* res.statusCode >= 500 ? "error" : res.statusCode >= 400 ? "warn" : "info"
logLevel(statusCode) ==
  IF statusCode >= 500 THEN "error"
  ELSE IF statusCode >= 400 THEN "warn"
  ELSE "info"

\* What a gauge decrement leaves in the trace.
DecEvents(i, n) ==
  IF n = 0 THEN <<>>
  ELSE IF i = "prom" THEN <<Ev("activeRequests.dec", "-")>>
  ELSE <<Ev("activeRequestsGauge.add(-1)", "-")>>

CompletedMeta_NoErrorInfo(req, statusCode) ==
  [request_id |-> "requestId", method |-> req.method, path |-> req.path,
   status |-> statusCode]

\* The metadata object of the 'Request completed' line:
\* { request_id, method, path, status, duration_ms, ...(req.errorInfo || {}) }.
\* Spread fields override the ones written before them.
CompletedMeta(req, statusCode) ==
  (IF "errorInfo" \in DOMAIN req THEN req.errorInfo ELSE EmptyBody)
    @@ [request_id |-> "requestId", method |-> req.method, path |-> req.path,
        status |-> statusCode]

OnFinish_NoObserve(d, statusCode, req) ==
  LET c == cleanup(d)
  IN [decremented |-> c.decremented, dec |-> c.dec, counter |-> 1,
      observe |-> 0,
      events |-> <<Ev("httpRequestsTotal.inc", "-")>>
                 \o DecEvents("prom", c.dec)
                 \o <<[meta |-> CompletedMeta(req, statusCode)]
                       @@ Ev("Request completed", logLevel(statusCode))>>]

OnFinish_NoCounter(d, statusCode, req) ==
  LET c == cleanup(d)
  IN [decremented |-> c.decremented, dec |-> c.dec, counter |-> 0,
      observe |-> 1,
      events |-> <<Ev("httpRequestDuration.observe", "-")>>
                 \o DecEvents("prom", c.dec)
                 \o <<[meta |-> CompletedMeta(req, statusCode)]
                       @@ Ev("Request completed", logLevel(statusCode))>>]

\* res.on("finish", ...) of createObservabilityMiddleware: counter, histogram,
\* cleanup(), then the 'Request completed' log.
OnFinish(d, statusCode, req) ==
  LET c == cleanup(d)
  IN [decremented |-> c.decremented, dec |-> c.dec, counter |-> 1,
      observe |-> 1,
      events |-> <<Ev("httpRequestsTotal.inc", "-"),
                   Ev("httpRequestDuration.observe", "-")>>
                 \o DecEvents("prom", c.dec)
                 \o <<[meta |-> CompletedMeta(req, statusCode)]
                       @@ Ev("Request completed", logLevel(statusCode))>>]

OnClose_NoCleanup(d, writableEnded) ==
  [decremented |-> d, dec |-> 0,
   events |-> IF ~writableEnded
                THEN <<Ev("Request aborted by client", "warn")>> ELSE <<>>]

OnClose_NoAbortLog(d, writableEnded) ==
  LET c == cleanup(d)
  IN [decremented |-> c.decremented, dec |-> c.dec,
      events |-> DecEvents("prom", c.dec)]

\* res.on("close", ...) of createObservabilityMiddleware: the abort warning
\* when the response was not ended, then cleanup().
OnClose(d, writableEnded) ==
  LET c == cleanup(d)
  IN [decremented |-> c.decremented, dec |-> c.dec,
      events |-> (IF ~writableEnded
                    THEN <<Ev("Request aborted by client", "warn")>>
                    ELSE <<>>)
                 \o DecEvents("prom", c.dec)]

\* res.on("finish", decrement) / res.on("close", decrement) of app.js.
OnSignalInline(d) ==
  LET c == decrement(d)
  IN [decremented |-> c.decremented, dec |-> c.dec,
      events |-> DecEvents("otel", c.dec)]

\* ------------------------------------------------------------------------
\* The route handlers (app.js)
\* ------------------------------------------------------------------------

\* Which handler express dispatches <<method, path>> to. The gateway of
\* sample-app/app.js has no /health route and the inline-tracker services
\* have no /metrics route; express answers those 404.
Route(s, i, m, p) ==
  CASE s = "gateway" /\ m = "GET" /\ p = "/" -> "root"
    [] s = "gateway" /\ m = "GET" /\ p = "/api/fast" -> "fast"
    [] s = "gateway" /\ m = "GET" /\ p = "/api/error" -> "error"
    [] s = "gateway" /\ m = "POST" /\ p = "/api/order" -> "proxy"
    [] s = "order" /\ m = "POST" /\ p = "/orders" -> "orders"
    [] s = "payment" /\ m = "POST" /\ p = "/payments" -> "payments"
    [] m = "GET" /\ p = "/metrics" /\ i = "prom" -> "metrics"
    [] m = "GET" /\ p = "/health" /\ ~(s = "gateway" /\ i = "prom") -> "health"
    [] OTHER -> "notfound"

\* Steps of the business handler as they appear in trace[r].
HandlerEvents ==
  {"handler", "await sleep", "axios.post", "await register.metrics",
   "resume", "res.json", "res.end", "Processing order", "Calling payment service",
   "Order completed", "Payment failed", "Order processing error",
   "Order error", "Processing payment", "Payment declined",
   "Payment approved", "Received order request"}

\* Math.random().toString(36).substring(7): a few base-36 digits, none at
\* all when the number has a short expansion.
ErrorIds == {"", "2mvyr"}

\* req.errorInfo as GET /api/error sets it.
ErrorInfo(errorId) ==
  [error_type |-> "RandomFailure", error_message |-> "Random failure occurred",
   error_id |-> errorId]

\* The body GET /api/error answers with.
ErrorBody(errorId) ==
  [status |-> "error", message |-> "Random failure!", error_id |-> errorId]

\* The synchronous prefix of a handler: up to its first await or its response.
\* status 0 means no response written yet.
HandlerStart(k) ==
  CASE k = "root" ->
         [pc |-> "done", status |-> 200,
          events |-> <<Ev("handler", "-"), Ev("res.json", "-")>>]
    [] k = "health" ->
         [pc |-> "done", status |-> 200,
          events |-> <<Ev("handler", "-"), Ev("res.json", "-")>>]
    [] k = "notfound" ->
         [pc |-> "done", status |-> 404,
          events |-> <<Ev("handler", "-"), Ev("res.json", "-")>>]
    [] k = "fast" ->
         [pc |-> "sleep", status |-> 0,
          events |-> <<Ev("handler", "-"), Ev("await sleep", "-")>>]
    [] k = "error" ->
         [pc |-> "sleep", status |-> 0,
          events |-> <<Ev("handler", "-"), Ev("await sleep", "-")>>]
    [] k = "proxy" ->
         [pc |-> "call", status |-> 0,
          events |-> <<Ev("handler", "-"), Ev("Received order request", "info"),
                       Ev("axios.post", "-")>>]
    [] k = "orders" ->
         [pc |-> "sleep", status |-> 0,
          events |-> <<Ev("handler", "-"), Ev("Processing order", "info"),
                       Ev("await sleep", "-")>>]
    [] k = "payments" ->
         [pc |-> "sleep", status |-> 0,
          events |-> <<Ev("handler", "-"), Ev("Processing payment", "info"),
                       Ev("await sleep", "-")>>]
    [] k = "metrics" ->
         [pc |-> "scrape", status |-> 0,
          events |-> <<Ev("handler", "-"), Ev("await register.metrics", "-")>>]

HandlerAfterSleep_AwaitsDownstream(k, declined) ==
  [pc |-> "call", status |-> 0, events |-> <<Ev("resume", "-")>>]

\* The handler after its sleep; declined is Math.random() < 0.1 of /payments.
HandlerAfterSleep(k, declined) ==
  CASE k = "fast" ->
         [pc |-> "done", status |-> 200,
          events |-> <<Ev("resume", "-"), Ev("res.json", "-")>>]
    [] k = "error" ->
         [pc |-> "done", status |-> 500,
          events |-> <<Ev("resume", "-"), Ev("res.json", "-")>>]
    [] k = "orders" ->
         [pc |-> "call", status |-> 0,
          events |-> <<Ev("resume", "-"), Ev("Calling payment service", "info"),
                       Ev("axios.post", "-")>>]
    [] k = "payments" /\ declined ->
         [pc |-> "done", status |-> 400,
          events |-> <<Ev("resume", "-"), Ev("Payment declined", "warn"),
                       Ev("res.json", "-")>>]
    [] k = "payments" /\ ~declined ->
         [pc |-> "done", status |-> 200,
          events |-> <<Ev("resume", "-"), Ev("Payment approved", "info"),
                       Ev("res.json", "-")>>]

HandlerAfterCall_NoReturn(k, o) ==
  CASE o = 200 ->
         [pc |-> "done", status |-> 200,
          events |-> <<Ev("resume", "-"), Ev("Order completed", "info"),
                       Ev("res.json", "-")>>]
    [] OTHER ->
         [pc |-> "done", status |-> 500,
          events |-> <<Ev("resume", "-"), Ev("res.json", "-"),
                       Ev("Order error", "error"), Ev("res.json", "-")>>]

\* The handler after its downstream call settled with outcome o: 200 is a
\* 2xx payload, 0 a rejection without error.response, anything else the
\* status of error.response.
HandlerAfterCall(k, o) ==
  CASE o = 200 ->
         [pc |-> "done", status |-> 200,
          events |-> <<Ev("resume", "-"), Ev("Order completed", "info"),
                       Ev("res.json", "-")>>]
    [] o = 0 ->
         [pc |-> "done", status |-> 500,
          events |-> <<Ev("resume", "-"),
                       Ev(IF k = "orders" THEN "Order processing error"
                                          ELSE "Order error", "error"),
                       Ev("res.json", "-")>>]
    [] OTHER ->
         [pc |-> "done", status |-> o,
          events |-> <<Ev("resume", "-")>>
                     \o (IF k = "orders"
                           THEN <<Ev("Payment failed", "error")>> ELSE <<>>)
                     \o <<Ev("res.json", "-")>>]

\* res.status(s).json(...): status 0 leaves the response untouched.
Write(rs, status) ==
  IF status = 0 THEN rs
  ELSE [rs EXCEPT !.statusCode = status, !.writableEnded = TRUE]

\* ------------------------------------------------------------------------
\* Actions: one per callback the event loop runs
\* ------------------------------------------------------------------------

Middleware_NextFirst(i, s, p, handlerEvents) ==
  IF Tracked(i, s, p) THEN handlerEvents \o EntryEvents(i) ELSE handlerEvents

\* The middleware body in statement order: the early return for skipped
\* paths, else the entry instrumentation, the registration of the two
\* listeners, and next() as its last statement.
Middleware(i, s, p, handlerEvents) ==
  IF Tracked(i, s, p) THEN EntryEvents(i) \o handlerEvents ELSE handlerEvents

\* Request r = <<m, p>> reaches the service: the tracker runs, then the
\* route handler up to its first await.
Accept(r, m, p) ==
  /\ ~crashed
  /\ pc[r] = "new"
  /\ \A q \in Req : q < r => pc[q] # "new"
  /\ LET tracked == Tracked(impl, svc, p)
         h == HandlerStart(Route(svc, impl, m, p))
     IN /\ request' = [request EXCEPT ![r] = [method |-> m, path |-> p]]
        /\ activeRequests' =
             IF tracked /\ impl = "prom" THEN activeRequests + 1
                                         ELSE activeRequests
        /\ activeRequestsGauge' =
             IF tracked /\ impl = "otel" THEN activeRequestsGauge + 1
                                         ELSE activeRequestsGauge
        /\ listening' = [listening EXCEPT ![r] = tracked]
        /\ trace' = [trace EXCEPT ![r] = Middleware(impl, svc, p, h.events)]
        /\ pc' = [pc EXCEPT ![r] = h.pc]
        /\ res' = [res EXCEPT ![r] = Write(@, h.status)]
  /\ UNCHANGED <<chainVars, proc, twin, script>>
  /\ UNCHANGED <<svc, impl, decremented, httpRequestsTotal,
                 httpRequestDuration, crashed>>

\* A client sends one of the requests the service has a use for.
Arrive(r, m, p) ==
  /\ <<m, p>> \in Inputs(svc)
  /\ Accept(r, m, p)

\* The handler of r resumes after await sleep(...).
AfterSleep(r, declined) ==
  /\ ~crashed
  /\ pc[r] = "sleep"
  /\ LET k == Route(svc, impl, request[r].method, request[r].path)
         h == HandlerAfterSleep(k, declined)
     IN /\ declined => k = "payments"
        /\ trace' = [trace EXCEPT ![r] = @ \o h.events]
        /\ pc' = [pc EXCEPT ![r] = h.pc]
        /\ IF k = "error"
             THEN \E errorId \in ErrorIds :
                    /\ request' = [request EXCEPT ![r] =
                                     [errorInfo |-> ErrorInfo(errorId)] @@ @]
                    /\ res' = [res EXCEPT ![r] =
                                 [body |-> ErrorBody(errorId)]
                                   @@ Write(@, h.status)]
             ELSE /\ res' = [res EXCEPT ![r] = Write(@, h.status)]
                  /\ UNCHANGED request
  /\ UNCHANGED <<chainVars, proc, twin, script>>
  /\ UNCHANGED <<svc, impl, listening, decremented, activeRequests,
                 activeRequestsGauge, httpRequestsTotal, httpRequestDuration,
                 crashed>>

InTry_None(k) == FALSE

\* Whether the handler of kind k awaits its downstream call inside
\* try { ... } catch (error) { ... }.
InTry(k) == k \in {"proxy", "orders"}

\* Whether the rejection of axios.post with outcome o leaves the async
\* handler of kind k as an unhandled rejection, which ends the process.
Escapes(k, o) == o # 200 /\ ~InTry(k)

\* The handler of r resumes after await axios.post(...) settled with o.
AfterCall(r, o) ==
  /\ ~crashed
  /\ pc[r] = "call"
  /\ LET k == Route(svc, impl, request[r].method, request[r].path)
         h == HandlerAfterCall(k, o)
     IN /\ trace' = [trace EXCEPT ![r] = @ \o h.events]
        /\ pc' = [pc EXCEPT ![r] = h.pc]
        /\ res' = [res EXCEPT ![r] = Write(@, h.status)]
        /\ crashed' = (crashed \/ Escapes(k, o))
  /\ UNCHANGED <<chainVars, proc, twin, script>>
  /\ UNCHANGED <<svc, impl, request, listening, decremented, activeRequests,
                 activeRequestsGauge, httpRequestsTotal, httpRequestDuration>>

\* The /metrics handler resumes after await register.metrics().
AfterScrape(r) ==
  /\ ~crashed
  /\ pc[r] = "scrape"
  /\ trace' = [trace EXCEPT ![r] = @ \o <<Ev("resume", "-"), Ev("res.end", "-")>>]
  /\ pc' = [pc EXCEPT ![r] = "done"]
  /\ res' = [res EXCEPT ![r] = Write(@, 200)]
  /\ UNCHANGED <<chainVars, proc, twin, script>>
  /\ UNCHANGED <<svc, impl, request, listening, decremented, activeRequests,
                 activeRequestsGauge, httpRequestsTotal, httpRequestDuration,
                 crashed>>

\* Node emits 'finish' once the ended response was handed to the socket, and
\* 'close' is the last event of a response: after it nothing more is emitted.
\* A response that is closed before it was flushed never gets its 'finish'.
CanFinish(rs) == rs.writableEnded /\ ~rs.finish /\ ~rs.close

\* 'finish' of res[r] runs the listeners registered for it.
Finish(r) ==
  /\ ~crashed
  /\ pc[r] # "new"
  /\ CanFinish(res[r])
  /\ res' = [res EXCEPT ![r].finish = TRUE]
  /\ IF ~listening[r]
       THEN UNCHANGED <<decremented, activeRequests, activeRequestsGauge,
                        httpRequestsTotal, httpRequestDuration, trace>>
     ELSE IF impl = "prom"
       THEN LET f == OnFinish(decremented[r], res[r].statusCode, request[r])
                m == request[r].method
                e == request[r].path
            IN /\ decremented' = [decremented EXCEPT ![r] = f.decremented]
               /\ activeRequests' = activeRequests - f.dec
               /\ httpRequestsTotal' =
                    IF f.counter = 0 THEN httpRequestsTotal
                    ELSE IncSeries(httpRequestsTotal,
                                   <<m, e, res[r].statusCode>>)
               /\ httpRequestDuration' =
                    IF f.observe = 0 THEN httpRequestDuration
                    ELSE IncSeries(httpRequestDuration, <<m, e>>)
               /\ trace' = [trace EXCEPT ![r] = @ \o f.events]
               /\ UNCHANGED activeRequestsGauge
     ELSE LET f == OnSignalInline(decremented[r])
          IN /\ decremented' = [decremented EXCEPT ![r] = f.decremented]
             /\ activeRequestsGauge' = activeRequestsGauge - f.dec
             /\ trace' = [trace EXCEPT ![r] = @ \o f.events]
             /\ UNCHANGED <<activeRequests, httpRequestsTotal,
                            httpRequestDuration>>
  /\ UNCHANGED <<chainVars, proc, twin, script>>
  /\ UNCHANGED <<svc, impl, request, pc, listening, crashed>>

\* 'close' of res[r]: the connection is gone, after the response completed
\* or because the client went away; it runs the listeners registered for it.
Close(r) ==
  /\ ~crashed
  /\ pc[r] # "new"
  /\ ~res[r].close
  /\ res' = [res EXCEPT ![r].close = TRUE,
                        ![r].aborted = ~res[r].writableEnded]
  /\ IF ~listening[r]
       THEN UNCHANGED <<decremented, activeRequests, activeRequestsGauge,
                        trace>>
     ELSE IF impl = "prom"
       THEN LET c == OnClose(decremented[r], res[r].writableEnded)
            IN /\ decremented' = [decremented EXCEPT ![r] = c.decremented]
               /\ activeRequests' = activeRequests - c.dec
               /\ trace' = [trace EXCEPT ![r] = @ \o c.events]
               /\ UNCHANGED activeRequestsGauge
     ELSE LET c == OnSignalInline(decremented[r])
          IN /\ decremented' = [decremented EXCEPT ![r] = c.decremented]
             /\ activeRequestsGauge' = activeRequestsGauge - c.dec
             /\ trace' = [trace EXCEPT ![r] = @ \o c.events]
             /\ UNCHANGED activeRequests
  /\ UNCHANGED <<chainVars, proc, twin, script>>
  /\ UNCHANGED <<svc, impl, request, pc, listening, httpRequestsTotal,
                 httpRequestDuration, crashed>>

Next ==
  \/ \E r \in Req, m \in {"GET", "POST"},
        p \in {"/", "/api/fast", "/api/error", "/api/order", "/orders",
               "/payments", "/metrics", "/health"} : Arrive(r, m, p)
  \/ \E r \in Req, declined \in BOOLEAN : AfterSleep(r, declined)
  \/ \E r \in Req, o \in DownstreamOutcomes : AfterCall(r, o)
  \/ \E r \in Req : AfterScrape(r)
  \/ \E r \in Req : Finish(r)
  \/ \E r \in Req : Close(r)

Spec == Init /\ [][Next]_vars

\* ------------------------------------------------------------------------
\* Vocabulary of the properties
\* ------------------------------------------------------------------------

\* The active-requests gauge of the installed tracker.
Gauge == IF impl = "prom" THEN activeRequests ELSE activeRequestsGauge

IncNames == {"activeRequests.inc", "activeRequestsGauge.add(1)"}

DecNames == {"activeRequests.dec", "activeRequestsGauge.add(-1)"}

\* Gauge increments / decrements performed on behalf of request r.
Incs(r) == Cardinality(Positions(trace[r], IncNames))

Decs(r) == Cardinality(Positions(trace[r], DecNames))

\* Number of terminal signals ('finish', 'close') r has received.
Signals(r) == (IF res[r].finish THEN 1 ELSE 0) + (IF res[r].close THEN 1 ELSE 0)

\* C1: the gauge equals the number of requests that entered the tracker and
\* whose latch is still false; it is never negative and no request
\* decrements it twice.
C1_GaugeCountsOpenLatches ==
  /\ Gauge = Cardinality({r \in Req : listening[r] /\ ~decremented[r]})
  /\ Gauge >= 0
  /\ \A r \in Req : Decs(r) <= 1

\* Two tracked requests overlapped; one got both signals and left the gauge
\* once, the other is still in flight.
C1_Witness ==
  \E r, q \in Req :
    /\ listening[r] /\ res[r].finish /\ res[r].close
    /\ listening[q] /\ ~decremented[q]
    /\ Gauge = 1

\* C2: whatever terminal signals fired for a request (none, finish only,
\* close only, both), its increment is matched by at most
\* one decrement, by exactly one as soon as a signal has fired, and a
\* decrement never happens without an earlier increment of the same request.
C2_NoDoubleDecrement ==
  \A r \in Req :
    /\ Incs(r) = (IF listening[r] THEN 1 ELSE 0)
    /\ Decs(r) <= Incs(r)
    /\ listening[r] => (Decs(r) = 1 <=> Signals(r) >= 1)
    /\ \A i \in Positions(trace[r], DecNames) :
         \E j \in Positions(trace[r], IncNames) : j < i

\* One request got 'finish' and then 'close', another only 'close' (abort);
\* each was decremented once.
C2_Witness ==
  \E r, q \in Req :
    /\ listening[r] /\ res[r].finish /\ res[r].close
    /\ listening[q] /\ res[q].aborted /\ ~res[q].finish
    /\ Decs(r) = 1 /\ Decs(q) = 1

\* A tracked request is terminal once it completed or was aborted.
Terminal(r) == res[r].finish \/ res[r].close

\* C3: once every tracked request of a burst is terminal (completed or
\* aborted, in any interleaving) the gauge is back at its pre-burst value,
\* the 0 of process start.
C3_GaugeReturnsToBaseline ==
  (\A r \in Req : listening[r] => Terminal(r)) => Gauge = 0

\* A burst of MaxReq tracked requests, all terminal, some completed and
\* some aborted.
C3_Witness ==
  /\ \A r \in Req : listening[r] /\ Terminal(r)
  /\ \E r \in Req : res[r].finish
  /\ \E r \in Req : res[r].aborted
  /\ Gauge = 0

\* 'Request completed' / 'Request aborted by client' logs written for r.
Completed(r) == CountEv(trace[r], "Request completed")

AbortedLogs(r) == CountEv(trace[r], "Request aborted by client")

\* C4: for every tracked request that received at least one terminal signal,
\* exactly one of the 'Request completed' log (with its counter and histogram
\* update) and the 'Request aborted by client' log was emitted.
C4_TerminalEmissionExactlyOnce ==
  \A r \in Req :
    (impl = "prom" /\ listening[r] /\ Signals(r) >= 1)
      => Completed(r) + AbortedLogs(r) = 1

\* Completed tracked requests: those whose 'finish' fired.
Finished == {r \in Req : listening[r] /\ res[r].finish}

\* C5: the requests-total counter never decreases, each tracked request adds
\* one to it when its 'finish' fires and nothing otherwise (an aborted request
\* adds nothing), so its total is the number of completed tracked requests.
C5_CounterCountsCompletions ==
  /\ [](impl = "prom" =>
          /\ SumSeries(httpRequestsTotal) = Cardinality(Finished)
          /\ \A r \in Req :
               /\ CountEv(trace[r], "httpRequestsTotal.inc")
                    = (IF r \in Finished THEN 1 ELSE 0)
               /\ res[r].aborted => r \notin Finished)
  /\ [][\A k \in DOMAIN httpRequestsTotal :
          /\ k \in DOMAIN httpRequestsTotal'
          /\ httpRequestsTotal'[k] >= httpRequestsTotal[k]]_vars

\* One tracked request completed and was counted, another was aborted and
\* was not.
C5_Witness ==
  /\ impl = "prom"
  /\ SumSeries(httpRequestsTotal) = 1
  /\ \E r, q \in Req :
       /\ r \in Finished
       /\ listening[q] /\ res[q].aborted /\ pc[q] = "done"

\* C6: a request whose client went away before the response was ended adds
\* nothing to the duration histogram or the requests-total counter, gets the
\* 'Request aborted by client' warning, and is still taken off the gauge --
\* also after its handler later wrote a response.
C6_AbortLeavesMetricsAlone ==
  /\ impl = "prom" =>
       /\ SumSeries(httpRequestDuration) = Cardinality(Finished)
       /\ SumSeries(httpRequestsTotal) = Cardinality(Finished)
  /\ \A r \in Req :
       (listening[r] /\ res[r].aborted) =>
         /\ r \notin Finished
         /\ CountEv(trace[r], "httpRequestDuration.observe") = 0
         /\ CountEv(trace[r], "httpRequestsTotal.inc") = 0
         /\ Completed(r) = 0
         /\ Decs(r) = 1
         /\ impl = "prom" =>
              \E i \in 1..Len(trace[r]) :
                trace[r][i] = Ev("Request aborted by client", "warn")

\* An aborted tracked request whose handler has since written its response.
C6_Witness ==
  \E r \in Req :
    /\ impl = "prom" /\ listening[r]
    /\ res[r].aborted /\ res[r].writableEnded
    /\ AbortedLogs(r) = 1

\* The mapping the specification gives for the level of the terminal log.
ReferenceLevel(status) ==
  IF status \in 500..599 THEN "error"
  ELSE IF status \in 400..499 THEN "warn"
  ELSE IF status < 400 THEN "info"
  ELSE "unspecified"

\* C7: every 'Request completed' log is written at the level the status of
\* its response maps to: info below 400, warn for 400-499, error for 500-599.
C7_LogLevelFollowsStatus ==
  \A r \in Req : \A i \in 1..Len(trace[r]) :
    trace[r][i].ev = "Request completed"
      => trace[r][i].level = ReferenceLevel(res[r].statusCode)

\* Completed requests at both boundaries: one answered 400, one 500.
C7_Witness ==
  \E r, q \in Req :
    /\ Completed(r) = 1 /\ res[r].statusCode = 400
    /\ Completed(q) = 1 /\ res[q].statusCode = 500

\* C8: in every service a request to /health or /metrics is exempt from
\* tracking (no gauge, counter, histogram or log), every other path is
\* tracked.
C8_LivenessAndScrapeExempt ==
  \A r \in Req :
    pc[r] # "new" =>
      IF request[r].path \in {"/health", "/metrics"}
        THEN /\ ~listening[r]
             /\ Incs(r) = 0 /\ Decs(r) = 0
             /\ Completed(r) = 0 /\ AbortedLogs(r) = 0
             /\ CountEv(trace[r], "Incoming request") = 0
        ELSE listening[r] /\ Incs(r) = 1

EntryNames == IncNames \cup {"Incoming request"}

ExitNames ==
  DecNames \cup {"httpRequestsTotal.inc", "httpRequestDuration.observe",
                 "Request completed", "Request aborted by client"}

\* Every entry of t named in as precedes every entry of t named in bs.
Precede(t, as, bs) ==
  \A i \in Positions(t, as) : \A j \in Positions(t, bs) : i < j

\* C9 as stated: within a tracked request, entry instrumentation precedes
\* every handler step and every handler step precedes exit instrumentation,
\* client aborts included.
C9_TotalOrderAlways ==
  \A r \in Req :
    listening[r] =>
      /\ Precede(trace[r], EntryNames, HandlerEvents)
      /\ Precede(trace[r], HandlerEvents, ExitNames)

\* C9 amended: entry instrumentation precedes every handler step; every
\* handler step precedes exit instrumentation unless the client aborted
\* (close before the response was ended), in which case the exit
\* instrumentation ran at the abort, after entry, and only handler steps
\* may follow it.
C9_OrderUnlessAborted ==
  \A r \in Req :
    listening[r] =>
      /\ Precede(trace[r], EntryNames, HandlerEvents)
      /\ Precede(trace[r], EntryNames, ExitNames)
      /\ ~res[r].aborted => Precede(trace[r], HandlerEvents, ExitNames)
      /\ Positions(trace[r], ExitNames) # {} =>
           res[r].aborted \/ res[r].writableEnded

\* A request with a downstream call completed in order, and an aborted one
\* whose handler went on to write after the exit instrumentation.
C9_Witness ==
  \E r, q \in Req :
    /\ listening[r] /\ res[r].finish /\ ~res[r].aborted
    /\ CountEv(trace[r], "axios.post") = 1
    /\ listening[q] /\ res[q].aborted
    /\ ~Precede(trace[q], HandlerEvents, ExitNames)

\* ------------------------------------------------------------------------
\* Instrumentation faults: the injected logger raises
\* ------------------------------------------------------------------------

\* logger.info("Incoming request") raises in the middleware of a tracked
\* request: the gauge was already incremented, the listeners are not yet
\* registered and next() is never reached; express catches the exception
\* and its default error handler answers 500.
ArriveLoggerThrows(r, m, p) ==
  /\ ~crashed
  /\ impl = "prom"
  /\ pc[r] = "new"
  /\ \A q \in Req : q < r => pc[q] # "new"
  /\ <<m, p>> \in Inputs(svc)
  /\ Tracked(impl, svc, p)
  /\ request' = [request EXCEPT ![r] = [method |-> m, path |-> p]]
  /\ activeRequests' = activeRequests + 1
  /\ trace' = [trace EXCEPT ![r] =
                 <<Ev("activeRequests.inc", "-"), Ev("logger throws", "-"),
                   Ev("express error handler", "-")>>]
  /\ pc' = [pc EXCEPT ![r] = "done"]
  /\ res' = [res EXCEPT ![r] = Write(@, 500)]
  /\ UNCHANGED <<chainVars, proc, twin, script>>
  /\ UNCHANGED <<svc, impl, listening, decremented, activeRequestsGauge,
                 httpRequestsTotal, httpRequestDuration, crashed>>

\* logger[logLevel]("Request completed") raises inside the 'finish' listener,
\* after the metrics and cleanup(): nothing catches an exception thrown by an
\* event listener, so the process dies.
FinishLoggerThrows(r) ==
  /\ ~crashed
  /\ impl = "prom"
  /\ listening[r]
  /\ CanFinish(res[r])
  /\ LET f == OnFinish(decremented[r], res[r].statusCode, request[r])
         m == request[r].method
         e == request[r].path
     IN /\ decremented' = [decremented EXCEPT ![r] = f.decremented]
        /\ activeRequests' = activeRequests - f.dec
        /\ httpRequestsTotal' =
             IncSeries(httpRequestsTotal, <<m, e, res[r].statusCode>>)
        /\ httpRequestDuration' = IncSeries(httpRequestDuration, <<m, e>>)
        /\ trace' = [trace EXCEPT ![r] =
                       @ \o SubSeq(f.events, 1, Len(f.events) - 1)
                         \o <<Ev("logger throws", "-")>>]
  /\ res' = [res EXCEPT ![r].finish = TRUE]
  /\ crashed' = TRUE
  /\ UNCHANGED <<chainVars, proc, twin, script>>
  /\ UNCHANGED <<svc, impl, request, pc, listening, activeRequestsGauge>>

\* logger.warn("Request aborted by client") raises inside the 'close'
\* listener, before cleanup() is reached: the process dies with the gauge
\* still counting the request.
CloseLoggerThrows(r) ==
  /\ ~crashed
  /\ impl = "prom"
  /\ listening[r]
  /\ pc[r] # "new"
  /\ ~res[r].close
  /\ ~res[r].writableEnded
  /\ res' = [res EXCEPT ![r].close = TRUE, ![r].aborted = TRUE]
  /\ trace' = [trace EXCEPT ![r] = @ \o <<Ev("logger throws", "-")>>]
  /\ crashed' = TRUE
  /\ UNCHANGED <<chainVars, proc, twin, script>>
  /\ UNCHANGED <<svc, impl, request, pc, listening, decremented,
                 activeRequests, activeRequestsGauge, httpRequestsTotal,
                 httpRequestDuration>>

NextFault ==
  \/ Next
  \/ \E r \in Req, m \in {"GET", "POST"},
        p \in {"/", "/api/fast", "/api/error", "/api/order", "/orders",
               "/payments", "/metrics", "/health"} : ArriveLoggerThrows(r, m, p)
  \/ \E r \in Req : FinishLoggerThrows(r)
  \/ \E r \in Req : CloseLoggerThrows(r)

SpecFault == Init /\ [][NextFault]_vars

\* C10: an instrumentation failure never fails the user request: when the
\* logger raises in the entry instrumentation or in a finish/close listener,
\* the business handler still runs and its own response is delivered, the
\* error goes no further (no error response, no dead process), and the gauge
\* increment is matched by one decrement once the request is over.
C10_InstrumentationFailureIsolated ==
  \A r \in Req :
    CountEv(trace[r], "logger throws") >= 1 =>
      /\ CountEv(trace[r], "handler") = 1
      /\ CountEv(trace[r], "express error handler") = 0
      /\ ~crashed
      /\ res[r].close => Decs(r) = Incs(r)

\* The identifying fields of the metadata object handed to the logger with
\* message msg by the handler of kind k or by the middleware: the field and
\* which of the request's identifiers it holds.
LogMeta(i, k, msg) ==
  CASE msg \in {"Incoming request", "Request completed",
                "Request aborted by client"} ->
         [request_id |-> "requestId"]
    [] msg \in {"Processing order", "Calling payment service"} ->
         [order_id |-> "orderId"]
    [] msg = "Order completed" ->
         IF k = "proxy" /\ i = "prom" THEN EmptyBody
                                      ELSE [order_id |-> "orderId"]
    [] msg = "Payment failed" ->
         IF i = "prom" THEN [order_id |-> "unknown"] ELSE EmptyBody
    [] msg \in {"Processing payment", "Payment declined", "Payment approved"} ->
         [payment_id |-> "paymentId", order_id |-> "orderId"]
    [] OTHER -> EmptyBody

\* The log lines of trace[r]: the entries written through the logger.
LogLines(r) == {n \in 1..Len(trace[r]) : trace[r][n].level # "-"}

\* The metadata of the n-th entry of trace[r].
MetaOf(r, n) ==
  LogMeta(impl, Route(svc, impl, request[r].method, request[r].path),
          trace[r][n].ev)

\* C11: every log line written while a request is handled -- by the
\* middleware and by the business handler, failure branches included --
\* carries the request's correlation identifier, and the 'Payment failed'
\* line still identifies its order.
C11_EveryLogLineCorrelated ==
  \A r \in Req : \A n \in LogLines(r) :
    /\ "request_id" \in DOMAIN MetaOf(r, n)
    /\ MetaOf(r, n).request_id = "requestId"
    /\ trace[r][n].ev = "Payment failed" =>
         /\ "order_id" \in DOMAIN MetaOf(r, n)
         /\ MetaOf(r, n).order_id = "orderId"

\* ------------------------------------------------------------------------
\* The call chain: POST /api/order -> POST /orders -> POST /payments
\* ------------------------------------------------------------------------

\* Instrumentations switched off in getNodeAutoInstrumentations({...}).
DisabledInstrumentations == {"@opentelemetry/instrumentation-fs"}

Instrumented(lib) == lib \notin DisabledInstrumentations

\* The span the http instrumentation opens for an inbound request of chain c
\* at service s: it continues the trace of the traceparent header when there
\* is one and starts a new trace otherwise.
ServerSpan(c, s, header) ==
  IF ~Instrumented("@opentelemetry/instrumentation-http") THEN {}
  ELSE {[svc |-> s, kind |-> "server", spanId |-> <<c, s, "server">>,
         traceId |-> IF header = NoHeader THEN <<"trace", c, s>>
                                          ELSE header.traceId,
         parentId |-> header.spanId]}

\* The span the http instrumentation opens for the outbound axios.post of
\* the handler whose inbound span is in parents: a child of that span.
ClientSpan(c, s, parents) ==
  IF ~Instrumented("@opentelemetry/instrumentation-http") THEN {}
  ELSE {[svc |-> s, kind |-> "client", spanId |-> <<c, s, "client">>,
         traceId |-> p.traceId, parentId |-> p.spanId] : p \in parents}

Traceparent_NotInjected(clientSpans) == NoHeader

\* The traceparent header injected into the outbound request.
Traceparent(clientSpans) ==
  IF clientSpans = {} THEN NoHeader
  ELSE LET sp == CHOOSE x \in clientSpans : TRUE
       IN [traceId |-> sp.traceId, spanId |-> sp.spanId]

\* The inbound span of chain c at service s.
InboundSpans(c, s) ==
  {sp \in chain[c].spans : sp.svc = s /\ sp.kind = "server"}

\* axios resolves for 2xx and rejects otherwise.
Resolved(reply) == reply.status \in 200..299

\* JavaScript's x.f || d for a numeric field: d when f is absent or 0.
NumberOr(b, f, d) == IF f \in DOMAIN b /\ b[f] # 0 THEN b[f] ELSE d

StringOr_AlwaysDefault(b, f, d) == d

\* JavaScript's x.f || d for a string field: d when f is absent or "".
StringOr(b, f, d) == IF f \in DOMAIN b /\ b[f] # "" THEN b[f] ELSE d

\* The JSON object literal with the fields of fs that are defined in vals.
Json(fs, vals) == [f \in fs \cap DOMAIN vals |-> vals[f]]

\* req.body || { total: 99.99 }: express.json() always leaves an object in
\* req.body, so the body is forwarded as received.
GatewayForward(b) == b

GatewayReply_GenericMessage(reply) ==
  IF Resolved(reply) THEN [status |-> 200, body |-> reply.data]
  ELSE IF reply.status # 0
    THEN [status |-> reply.status, body |-> reply.data]
  ELSE [status |-> 500, body |-> [error |-> "Internal Server Error"]]

GatewayReply_AlwaysOk(reply) ==
  IF reply.status # 0 THEN [status |-> 200, body |-> reply.data]
  ELSE [status |-> 200, body |-> [error |-> reply.message]]

\* POST /api/order once axios.post settled with reply.
GatewayReply(reply) ==
  IF Resolved(reply) THEN [status |-> 200, body |-> reply.data]
  ELSE IF reply.status # 0
    THEN [status |-> reply.status, body |-> reply.data]
  ELSE [status |-> 500, body |-> [error |-> reply.message]]

\* const orderTotal = req.body.total || Math.round(Math.random() * 10000) / 100
OrderTotal(body, random) == NumberOr(body, "total", random)

OrderReply_StripsPayment(reply, orderId, orderTotal) ==
  [status |-> IF Resolved(reply) THEN 200
              ELSE IF reply.status # 0 THEN reply.status ELSE 500,
   body |-> [status |-> "completed", orderId |-> orderId,
             total |-> orderTotal, payment |-> [status |-> "approved"]]]

\* POST /orders once axios.post settled with reply.
OrderReply(reply, orderId, orderTotal) ==
  IF Resolved(reply)
    THEN [status |-> 200,
          body |-> [status |-> "completed", orderId |-> orderId,
                    total |-> orderTotal, payment |-> reply.data]]
  ELSE IF reply.status # 0
    THEN [status |-> reply.status,
          body |-> [status |-> "failed",
                    error |-> StringOr(reply.data, "error", "Payment failed")]]
  ELSE [status |-> 500,
        body |-> [status |-> "error", error |-> reply.message]]

PaymentReply_DeclineAs200(declined, body, paymentId, t) ==
  [status |-> 200,
   body |-> IF declined
     THEN Json({"status", "paymentId", "orderId", "error"},
               [status |-> "declined", paymentId |-> paymentId,
                error |-> "Card declined"] @@ body)
     ELSE Json({"status", "paymentId", "orderId", "amount", "processedAt"},
               [status |-> "approved", paymentId |-> paymentId,
                processedAt |-> t] @@ body)]

\* POST /payments after its sleep; t is the clock read by new Date().
PaymentReply(declined, body, paymentId, t) ==
  IF declined
    THEN [status |-> 400,
          body |-> Json({"status", "paymentId", "orderId", "error"},
                        [status |-> "declined", paymentId |-> paymentId,
                         error |-> "Card declined"] @@ body)]
    ELSE [status |-> 200,
          body |-> Json({"status", "paymentId", "orderId", "amount",
                         "processedAt"},
                        [status |-> "approved", paymentId |-> paymentId,
                         processedAt |-> t] @@ body)]

\* What axios hands to the caller: a response (status, data) or, with
\* status 0, an error without error.response.
Reply(status, data, message) ==
  [status |-> status, data |-> data, message |-> message]

\* The service below hop h in the chain.
Callee(h) == IF h = "gw" THEN "ord" ELSE "pay"

\* A response written on rs reaches the peer unless the connection is gone.
Flush(rs) == IF rs.close THEN rs ELSE [rs EXCEPT !.finish = TRUE]

\* activeOrders.inc() / activePayments.inc() on entry of the handler.
DomainEnter(d, gauge) == [d EXCEPT ![gauge] = @ + 1]

DomainExit_KeepsGauge(d, gauge, counter, histogram, outcome) ==
  [d EXCEPT ![counter] = IncSeries(@, <<outcome>>), ![histogram] = @ + 1]

\* counter.labels(outcome).inc(); gauge.dec(); histogram.observe(...): the
\* three statements every exit path of the handler runs.
DomainExit(d, gauge, counter, histogram, outcome) ==
  [d EXCEPT ![counter] = IncSeries(@, <<outcome>>),
            ![gauge] = @ - 1,
            ![histogram] = @ + 1]

\* The label of ordersTotal on the exit path taken for reply.
OrderOutcome(reply) == IF Resolved(reply) THEN "completed" ELSE "failed"

\* The label of paymentsTotal on the exit path taken.
PaymentOutcome(declined) == IF declined THEN "declined" ELSE "approved"

\* The wall clock advances.
Tick ==
  /\ now < MaxNow
  /\ now' = now + 1
  /\ UNCHANGED <<script, serviceVars, chain, faults, domain>>

\* A client posts body b to the gateway's /api/order; the handler runs up to
\* await axios.post(ORDER_SERVICE_URL/orders, ...).
GwArrive(c, b) ==
  /\ chain[c].gw.pc = "idle"
  /\ \A d \in Chains : d < c => chain[d].gw.pc # "idle"
  /\ b \in ClientBodies
  /\ LET server == ServerSpan(c, "gateway", NoHeader)
         client == ClientSpan(c, "gateway", server)
     IN chain' = [chain EXCEPT
          ![c].body = b,
          ![c].gw.pc = "call",
          ![c].gw.calls = @ + 1,
          ![c].gw.late = @ \/ chain[c].gw.res.writableEnded,
          ![c].ord.pc = "inflight",
          ![c].ord.body = GatewayForward(b),
          ![c].ord.header = Traceparent(client),
          ![c].spans = @ \cup server \cup client]
  /\ UNCHANGED <<script, serviceVars, faults, now, domain>>

\* order-service receives POST /orders; the handler mints the order id and
\* runs up to await sleep(...).
OrderArrive(c) ==
  /\ chain[c].ord.pc = "inflight"
  /\ chain' = [chain EXCEPT
       ![c].ord.pc = "sleep",
       ![c].ord.orderId = <<"ORD", now>>,
       ![c].spans = @ \cup ServerSpan(c, "order", chain[c].ord.header)]
  /\ domain' = DomainEnter(domain, "activeOrders")
  /\ UNCHANGED <<script, serviceVars, faults, now>>

\* The order handler resumes, fixes the total and runs up to
\* await axios.post(PAYMENT_SERVICE_URL/payments, { orderId, amount }).
OrderAfterSleep(c, random) ==
  /\ chain[c].ord.pc = "sleep"
  /\ random \in RandomTotals
  /\ LET orderTotal == OrderTotal(chain[c].ord.body, random)
         client == ClientSpan(c, "order", InboundSpans(c, "order"))
     IN chain' = [chain EXCEPT
          ![c].ord.pc = "call",
          ![c].ord.orderTotal = orderTotal,
          ![c].ord.calls = @ + 1,
          ![c].ord.late = @ \/ chain[c].ord.res.writableEnded,
          ![c].pay.pc = "inflight",
          ![c].pay.body = [orderId |-> chain[c].ord.orderId,
                           amount |-> orderTotal],
          ![c].pay.header = Traceparent(client),
          ![c].spans = @ \cup client]
  /\ UNCHANGED <<script, serviceVars, faults, now, domain>>

\* payment-service receives POST /payments; the handler mints the payment
\* id and runs up to await sleep(...).
PaymentArrive(c) ==
  /\ chain[c].pay.pc = "inflight"
  /\ chain' = [chain EXCEPT
       ![c].pay.pc = "sleep",
       ![c].pay.paymentId = <<"PAY", now>>,
       ![c].spans = @ \cup ServerSpan(c, "payment", chain[c].pay.header)]
  /\ domain' = DomainEnter(domain, "activePayments")
  /\ UNCHANGED <<script, serviceVars, faults, now>>

\* The payment handler resumes and answers; the answer settles the order
\* handler's axios.post unless the connection is gone.
PaymentAfterSleep(c, declined) ==
  /\ chain[c].pay.pc = "sleep"
  /\ LET h == PaymentReply(declined, chain[c].pay.body,
                           chain[c].pay.paymentId, now)
         rs == Write(chain[c].pay.res, h.status)
     IN chain' = [chain EXCEPT
          ![c].pay.pc = "done",
          ![c].pay.res = Flush(rs),
          ![c].pay.out = h.body,
          ![c].ord.reply = IF rs.close THEN @ ELSE Reply(h.status, h.body, "")]
  /\ domain' = DomainExit(domain, "activePayments", "paymentsTotal",
                       "paymentDuration", PaymentOutcome(declined))
  /\ UNCHANGED <<script, serviceVars, faults, now>>

\* The order handler resumes with the settled axios.post and answers; the
\* answer settles the gateway handler's axios.post unless the connection is
\* gone.
OrderAfterCall(c) ==
  /\ chain[c].ord.pc = "call"
  /\ chain[c].ord.reply # NoReply
  /\ LET h == OrderReply(chain[c].ord.reply, chain[c].ord.orderId,
                         chain[c].ord.orderTotal)
         rs == Write(chain[c].ord.res, h.status)
     IN chain' = [chain EXCEPT
          ![c].ord.pc = "done",
          ![c].ord.res = Flush(rs),
          ![c].ord.out = h.body,
          ![c].gw.reply = IF rs.close THEN @ ELSE Reply(h.status, h.body, "")]
  /\ domain' = DomainExit(domain, "activeOrders", "ordersTotal",
                       "orderDuration", OrderOutcome(chain[c].ord.reply))
  /\ UNCHANGED <<script, serviceVars, faults, now>>

\* The gateway handler resumes with the settled axios.post and answers its
\* client.
GwAfterCall(c) ==
  /\ chain[c].gw.pc = "call"
  /\ chain[c].gw.reply # NoReply
  /\ LET h == GatewayReply(chain[c].gw.reply)
     IN chain' = [chain EXCEPT
          ![c].gw.pc = "done",
          ![c].gw.res = Flush(Write(@, h.status)),
          ![c].gw.out = h.body]
  /\ UNCHANGED <<script, serviceVars, faults, now, domain>>

\* Answers that come from something between two services (a proxy, the
\* cluster's service routing) instead of the callee: status and JSON body.
StrayAnswers ==
  {[status |-> 404, data |-> EmptyBody],
   [status |-> 503, data |-> [error |-> "Service Unavailable"]]}

\* The call of hop h never reaches its callee: connection refused.
Refuse(c, h) ==
  /\ faults < MaxFaults
  /\ chain[c][Callee(h)].pc = "inflight"
  /\ chain' = [chain EXCEPT
       ![c][Callee(h)].pc = "lost",
       ![c][h].reply = Reply(0, EmptyBody, "connect ECONNREFUSED")]
  /\ faults' = faults + 1
  /\ UNCHANGED <<script, serviceVars, now, domain>>

\* The call of hop h is answered on the way with the answer a.
Stray(c, h, a) ==
  /\ faults < MaxFaults
  /\ chain[c][Callee(h)].pc = "inflight"
  /\ a \in StrayAnswers
  /\ chain' = [chain EXCEPT
       ![c][Callee(h)].pc = "lost",
       ![c][h].reply = Reply(a.status, a.data, "")]
  /\ faults' = faults + 1
  /\ UNCHANGED <<script, serviceVars, now, domain>>

\* The connection of hop h's call breaks while the callee is handling it:
\* the callee's response gets 'close', the caller's axios.post rejects
\* without error.response. Nothing cancels the callee's handler.
Drop(c, h) ==
  /\ faults < MaxFaults
  /\ chain[c][Callee(h)].pc \in {"sleep", "call"}
  /\ ~chain[c][Callee(h)].res.close
  /\ chain' = [chain EXCEPT
       ![c][Callee(h)].res.close = TRUE,
       ![c][Callee(h)].res.aborted = TRUE,
       ![c][h].reply = Reply(0, EmptyBody, "socket hang up")]
  /\ faults' = faults + 1
  /\ UNCHANGED <<script, serviceVars, now, domain>>

\* The gateway's client disconnects while the handler awaits order-service.
ClientAbort(c) ==
  /\ faults < MaxFaults
  /\ chain[c].gw.pc = "call"
  /\ ~chain[c].gw.res.close
  /\ chain' = [chain EXCEPT ![c].gw.res.close = TRUE,
                            ![c].gw.res.aborted = TRUE]
  /\ faults' = faults + 1
  /\ UNCHANGED <<script, serviceVars, now, domain>>

Hops == {"gw", "ord"}

\* The three services of one deployment, no request on its way yet.
InitChain == Init /\ svc = "gateway" /\ impl = "prom"

NextChain ==
  \/ Tick
  \/ \E c \in Chains, b \in ClientBodies : GwArrive(c, b)
  \/ \E c \in Chains : OrderArrive(c)
  \/ \E c \in Chains, random \in RandomTotals : OrderAfterSleep(c, random)
  \/ \E c \in Chains : PaymentArrive(c)
  \/ \E c \in Chains, declined \in BOOLEAN : PaymentAfterSleep(c, declined)
  \/ \E c \in Chains : OrderAfterCall(c)
  \/ \E c \in Chains : GwAfterCall(c)
  \/ \E c \in Chains, h \in Hops : Refuse(c, h)
  \/ \E c \in Chains, h \in Hops, a \in StrayAnswers : Stray(c, h, a)
  \/ \E c \in Chains, h \in Hops : Drop(c, h)
  \/ \E c \in Chains : ClientAbort(c)

SpecChain == InitChain /\ [][NextChain]_vars

\* ------------------------------------------------------------------------
\* Claims about the call chain
\* ------------------------------------------------------------------------

\* The spans of chain c recorded at service s.
SpansOf(c, s) == {sp \in chain[c].spans : sp.svc = s}

\* The trace ids started at the gateway for chain c.
RootTraces(c) == {sp.traceId : sp \in InboundSpans(c, "gateway")}

\* Whether the handler of service s (a field of the chain) has run for c.
Handled(c, s) == chain[c][s].pc \in {"sleep", "call", "done"}

C13_ApprovedPayloadsPassThrough ==
  \A c \in Chains :
    LET p == chain[c].pay
        o == chain[c].ord
        g == chain[c].gw
    IN /\ (p.pc = "done" /\ p.res.statusCode = 200) =>
            /\ p.out.status = "approved"
            /\ p.out.orderId = p.body.orderId
            /\ p.body.orderId = o.orderId
       /\ (o.pc = "done" /\ Resolved(o.reply)) =>
            /\ p.pc = "done" /\ p.out.status = "approved"
            /\ o.res.statusCode = 200
            /\ o.out.status = "completed"
            /\ o.out.orderId = o.orderId
            /\ o.out.payment = p.out
       /\ (g.pc = "done" /\ Resolved(g.reply)) =>
            /\ o.pc = "done" /\ o.out.status = "completed"
            /\ g.res.statusCode = 200
            /\ g.out = o.out

\* An approved order went all the way back to the gateway's client.
C13_Witness ==
  \E c \in Chains :
    /\ chain[c].gw.pc = "done" /\ chain[c].gw.res.finish
    /\ chain[c].gw.res.statusCode = 200
    /\ chain[c].gw.out.payment.status = "approved"
    /\ chain[c].gw.out.payment.orderId = chain[c].ord.orderId

\* C14: for every numeric total t a client may post, 0 included, the gateway
\* forwards the body unchanged, order-service sends payment-service an
\* amount equal to t and answers with a total equal to t.
C14_TotalForwardedAsPosted ==
  \A c \in Chains :
    "total" \in DOMAIN chain[c].body =>
      /\ chain[c].ord.pc # "idle" => chain[c].ord.body = chain[c].body
      /\ chain[c].pay.pc # "idle" =>
           chain[c].pay.body.amount = chain[c].body.total
      /\ (chain[c].ord.pc = "done" /\ Resolved(chain[c].ord.reply)) =>
           chain[c].ord.out.total = chain[c].body.total

\* C15: when payment-service declines it answers HTTP 400 with status
\* 'declined'; order-service answers the same 400 with
\* { status: 'failed', error: 'Card declined' }; the gateway answers the
\* same 400 with order-service's body unchanged.
C15_DeclinePropagates ==
  \A c \in Chains :
    LET p == chain[c].pay
        o == chain[c].ord
        g == chain[c].gw
        declined == p.pc = "done" /\ p.out.status = "declined"
    IN /\ declined =>
            /\ p.res.statusCode = 400
            /\ p.out.error = "Card declined"
       /\ (declined /\ o.pc = "done" /\ o.reply.data = p.out) =>
            /\ o.res.statusCode = 400
            /\ o.out = [status |-> "failed", error |-> "Card declined"]
       /\ (declined /\ o.pc = "done" /\ g.pc = "done"
             /\ g.reply.data = o.out /\ o.reply.data = p.out) =>
            /\ g.res.statusCode = 400
            /\ g.out = o.out

\* A declined payment went all the way back to the gateway's client.
C15_Witness ==
  \E c \in Chains :
    /\ chain[c].pay.pc = "done" /\ chain[c].pay.out.status = "declined"
    /\ chain[c].gw.pc = "done" /\ chain[c].gw.res.finish
    /\ chain[c].gw.res.statusCode = 400
    /\ chain[c].gw.out = [status |-> "failed", error |-> "Card declined"]

\* A hop whose downstream call was answered with a structured error.
StructuredError(hop) ==
  hop.pc = "done" /\ hop.reply.status \notin {-1, 0} /\ ~Resolved(hop.reply)

\* C16 as stated: at every hop that makes a downstream call, a structured
\* error response of status s and body b is answered to the hop's caller
\* with the same status s and the same body b.
C16_ErrorAnsweredUnchanged ==
  \A c \in Chains : \A h \in Hops :
    StructuredError(chain[c][h]) =>
      /\ chain[c][h].res.statusCode = chain[c][h].reply.status
      /\ chain[c][h].out = chain[c][h].reply.data

\* C16 as the code has it: both hops answer with the downstream status s;
\* the gateway answers with the body b unchanged, order-service with
\* { status: 'failed', error: e } where e is b's error text, or
\* 'Payment failed' when b has none.
C16_StatusKeptBodyPerHop ==
  \A c \in Chains :
    LET o == chain[c].ord
        g == chain[c].gw
    IN /\ StructuredError(g) =>
            /\ g.res.statusCode = g.reply.status
            /\ g.out = g.reply.data
       /\ StructuredError(o) =>
            /\ o.res.statusCode = o.reply.status
            /\ o.out.status = "failed"
            /\ DOMAIN o.out = {"status", "error"}
            /\ o.out.error =
                 IF "error" \in DOMAIN o.reply.data /\ o.reply.data.error # ""
                   THEN o.reply.data.error ELSE "Payment failed"

\* Both hops answered a structured error: order-service one whose body has
\* no error text, and the gateway the answer order-service made of it.
C16_Witness ==
  \E c \in Chains :
    /\ StructuredError(chain[c].ord) /\ StructuredError(chain[c].gw)
    /\ "error" \notin DOMAIN chain[c].ord.reply.data
    /\ chain[c].gw.out = [status |-> "failed", error |-> "Payment failed"]
    /\ chain[c].gw.res.statusCode = 404

\* A hop whose downstream call failed without a response.
TransportFailure(hop) == hop.pc = "done" /\ hop.reply.status = 0

\* C17: when the downstream call fails with no response, the calling hop
\* answers HTTP 500 with a body whose error field is the exception's
\* message, and the hop above propagates that 500.
C17_TransportFailureIs500 ==
  \A c \in Chains :
    LET o == chain[c].ord
        g == chain[c].gw
    IN /\ \A h \in Hops : TransportFailure(chain[c][h]) =>
            /\ chain[c][h].res.statusCode = 500
            /\ chain[c][h].out.error = chain[c][h].reply.message
       /\ (TransportFailure(o) /\ g.pc = "done" /\ g.reply.data = o.out) =>
            /\ g.res.statusCode = 500
            /\ g.out.error = o.reply.message

\* payment-service refused the connection and the gateway's client got the
\* 500 order-service made of it.
C17_Witness ==
  \E c \in Chains :
    /\ TransportFailure(chain[c].ord)
    /\ chain[c].gw.pc = "done" /\ chain[c].gw.res.finish
    /\ chain[c].gw.res.statusCode = 500
    /\ chain[c].gw.out = [status |-> "error", error |-> "connect ECONNREFUSED"]

\* C18: each request at the gateway or at order-service issues at most one
\* downstream call on every path, and none after its response was written;
\* a failed downstream call never ends in a success status.
C18_NoRetryNoDowngrade ==
  \A c \in Chains : \A h \in Hops :
    /\ chain[c][h].calls <= 1
    /\ chain[c][h].pc \in {"call", "done"} => chain[c][h].calls = 1
    /\ ~chain[c][h].late
    /\ chain[c][h].res.writableEnded => chain[c][h].pc = "done"
    /\ (chain[c][h].pc = "done" /\ ~Resolved(chain[c][h].reply)) =>
         chain[c][h].res.statusCode >= 400

\* Every kind of failure was answered after exactly one call.
C18_Witness ==
  \E c \in Chains :
    /\ StructuredError(chain[c].gw) /\ TransportFailure(chain[c].ord)
    /\ chain[c].gw.calls = 1 /\ chain[c].ord.calls = 1
    /\ chain[c].gw.res.statusCode = 500

\* C19: a client abort at one hop does not cancel the work below it -- the
\* downstream call is not withdrawn -- and the aborted hop attempts no
\* response to its own client.
C19_AbortedHopWritesNothing ==
  \A c \in Chains : \A h \in Hops :
    chain[c][h].res.aborted =>
      /\ chain[c][Callee(h)].pc # "lost"
      /\ ~chain[c][h].res.writableEnded

\* ------------------------------------------------------------------------
\* Progress of concurrent requests
\* ------------------------------------------------------------------------

\* What the event loop owes a request: an expired timer resumes its handler,
\* a collected scrape resumes /metrics, a written response is flushed while
\* the connection lasts. Nothing obliges a downstream service to answer or
\* a client to disconnect.
Fairness ==
  \A r \in Req :
    /\ WF_vars(\E declined \in BOOLEAN : AfterSleep(r, declined))
    /\ WF_vars(AfterScrape(r))
    /\ WF_vars(Finish(r))

\* A service that makes downstream calls, with either tracker.
InitLive == Init /\ svc \in {"gateway", "order"}

\* One outcome of the downstream call per branch of the handlers: a 2xx
\* payload, a rejection without response, a structured error.
LiveOutcomes == {200, 0, 400}

\* The steps of Next, the downstream call settling in one of LiveOutcomes.
NextLive ==
  \/ \E r \in Req, m \in {"GET", "POST"},
        p \in {"/api/fast", "/api/order", "/orders", "/metrics", "/health"} :
       Arrive(r, m, p)
  \/ \E r \in Req : AfterSleep(r, FALSE)
  \/ \E r \in Req, o \in LiveOutcomes : AfterCall(r, o)
  \/ \E r \in Req : AfterScrape(r)
  \/ \E r \in Req : Finish(r)
  \/ \E r \in Req : Close(r)

SpecLive == InitLive /\ [][NextLive]_vars /\ Fairness

\* r has arrived and its route makes no downstream call.
Unrelated(r) ==
  /\ pc[r] # "new"
  /\ Route(svc, impl, request[r].method, request[r].path)
       \notin {"proxy", "orders"}

\* C20: while a request q is suspended on a downstream call, however long
\* the answer takes and even if it never comes, a concurrent request r to
\* the same service whose route makes no downstream call eventually gets
\* its response written and reaches its terminal signal.
C20_NoRequestBlocksAnother ==
  \A r, q \in Req :
    (r # q /\ pc[q] = "call" /\ Unrelated(r))
      ~> (pc[r] = "done" /\ Terminal(r))

\* r arrived after q was suspended on its call and completed while q still
\* waits.
C20_Witness ==
  \E r, q \in Req :
    /\ q < r /\ pc[q] = "call" /\ Unrelated(r)
    /\ pc[r] = "done" /\ res[r].finish

\* ------------------------------------------------------------------------
\* Termination: process.on("SIGTERM", ...) of tracing.js and app.js
\* ------------------------------------------------------------------------

\* The SIGTERM listeners of service s in registration order: tracing.js is
\* imported first by every app.js, and only the gateway's app.js registers
\* a listener of its own.
SigtermHandlers(s) ==
  IF s = "gateway" THEN <<"tracing", "app">> ELSE <<"tracing">>

\* One listener run on process state p. tracing.js calls sdk.shutdown() and
\* returns with the promise pending; app.js logs and calls process.exit(0).
\* Nothing runs in a process that has exited.
RunHandler(p, h) ==
  IF p.exited THEN p
  ELSE IF h = "tracing" THEN [p EXCEPT !.shutdown = "pending"]
  ELSE [p EXCEPT !.console = Append(@, "Shutting down gracefully"),
                 !.exited = TRUE, !.exitCode = 0]

\* The listeners hs run one after the other, as EventEmitter.emit does.
RECURSIVE RunHandlers(_, _)
RunHandlers(p, hs) ==
  IF hs = <<>> THEN p ELSE RunHandlers(RunHandler(p, Head(hs)), Tail(hs))

OnShutdownSettled_Uncaught(p, ok) ==
  IF ok THEN [p EXCEPT !.shutdown = "resolved",
                       !.console = Append(@, "Tracing terminated"),
                       !.exited = TRUE, !.exitCode = 0]
  ELSE [p EXCEPT !.shutdown = "rejected", !.exited = TRUE, !.exitCode = 1]

\* .then(() => console.log("Tracing terminated"))
\* .catch((error) => console.log("Error terminating tracing", error))
\* .finally(() => process.exit(0)) once sdk.shutdown() settled.
OnShutdownSettled(p, ok) ==
  [p EXCEPT !.shutdown = IF ok THEN "resolved" ELSE "rejected",
            !.console = Append(@, IF ok THEN "Tracing terminated"
                                        ELSE "Error terminating tracing"),
            !.exited = TRUE, !.exitCode = 0]

\* The process receives SIGTERM.
Sigterm ==
  /\ ~proc.exited /\ ~proc.signalled
  /\ proc' = RunHandlers([proc EXCEPT !.signalled = TRUE], SigtermHandlers(svc))
  /\ UNCHANGED <<svc, impl, request, pc, res, listening, decremented,
                 activeRequests, activeRequestsGauge, httpRequestsTotal,
                 httpRequestDuration, trace, crashed, twin, script, chainVars>>

\* sdk.shutdown() settles: the flush succeeded (ok) or failed.
ShutdownSettles(ok) ==
  /\ ~proc.exited /\ proc.shutdown = "pending"
  /\ proc' = OnShutdownSettled(proc, ok)
  /\ UNCHANGED <<svc, impl, request, pc, res, listening, decremented,
                 activeRequests, activeRequestsGauge, httpRequestsTotal,
                 httpRequestDuration, trace, crashed, twin, script, chainVars>>

\* A service answering health probes until it is told to stop.
NextShutdown ==
  \/ Sigterm
  \/ \E ok \in BOOLEAN : ShutdownSettles(ok)
  \/ \E r \in Req : ~proc.exited /\ Arrive(r, "GET", "/health")
  \/ \E r \in Req : ~proc.exited /\ Finish(r)
  \/ \E r \in Req : ~proc.exited /\ Close(r)

\* The exporter gives up after its timeout, so a started flush settles.
SpecShutdown ==
  Init /\ [][NextShutdown]_vars
       /\ WF_vars(\E ok \in BOOLEAN : ShutdownSettles(ok))

\* C21: on a termination signal the process never reaches exit while the
\* SDK shutdown started by the signal is still pending.
C21_NoExitWhileFlushPending == proc.exited => proc.shutdown # "pending"

\* What the process wrote to its console.
Console == {proc.console[n] : n \in 1..Len(proc.console)}

\* C22: after a termination signal the process eventually exits, with code
\* 0 whether the flush succeeded or failed; a failed flush is logged and
\* does not change the exit code.
C22_ExitsWithCodeZero ==
  /\ proc.signalled ~> proc.exited
  /\ [](proc.exited => proc.exitCode = 0)
  /\ [](proc.shutdown = "rejected" =>
          /\ "Error terminating tracing" \in Console
          /\ proc.exited /\ proc.exitCode = 0)

\* The flush failed and the process has exited.
C22_Witness ==
  /\ proc.shutdown = "rejected" /\ proc.exited
  /\ \E r \in Req : res[r].finish

\* ------------------------------------------------------------------------
\* Survival of the service
\* ------------------------------------------------------------------------

\* q ended in one of the failures a single request can meet.
Failed(q) ==
  /\ pc[q] = "done"
  /\ res[q].statusCode >= 400 \/ res[q].aborted

UnroutedPaths == {"/users/1", "/users/2", "/users/3"}

\* A client requests a path without route; the tracker is installed with
\* app.use and runs all the same, express answers 404.
Probe(r, p) ==
  /\ p \in UnroutedPaths
  /\ Accept(r, "GET", p)

\* A service with createObservabilityMiddleware.
InitLabels == Init /\ impl = "prom"

NextLabels ==
  \/ \E r \in Req, p \in UnroutedPaths : Probe(r, p)
  \/ \E r \in Req : Arrive(r, "GET", "/metrics")
  \/ \E r \in Req : AfterScrape(r)
  \/ \E r \in Req : Finish(r)
  \/ \E r \in Req : Close(r)

SpecLabels == InitLabels /\ [][NextLabels]_vars

\* The path patterns of the service's routes: the values a normalized
\* endpoint label can take.
NormalizedPaths(s) == {i[2] : i \in Inputs(s)}

\* C24: whatever paths are requested, the label combinations of the
\* requests-total counter and of the duration histogram stay within a fixed
\* set: the endpoint label is one of the service's route patterns, never a
\* value that varies from request to request.
C24_LabelsWithinFixedSet ==
  /\ \A l \in DOMAIN httpRequestsTotal : l[2] \in NormalizedPaths(svc)
  /\ \A l \in DOMAIN httpRequestDuration : l[2] \in NormalizedPaths(svc)

\* ------------------------------------------------------------------------
\* Business metrics of order-service and payment-service
\* ------------------------------------------------------------------------

\* Chains whose handler at service s (a field of the chain) has been entered
\* / has taken one of its exit paths.
Entered(s) == {c \in Chains : Handled(c, s)}

Exited(s) == {c \in Chains : chain[c][s].pc = "done"}

\* The value of the series of counter labelled outcome, 0 before first use.
SeriesValue(counter, outcome) ==
  IF <<outcome>> \in DOMAIN counter THEN counter[<<outcome>>] ELSE 0

\* C25: every POST /orders (POST /payments) raises the active-orders
\* (active-payments) gauge once on entry and lowers it exactly once on the
\* exit path taken, increments exactly one outcome counter, the one of its
\* business outcome, and records one duration observation; the gauge is
\* back at its baseline once every request has finished.
C25_DomainMetricsDiscipline ==
  /\ domain.activeOrders = Cardinality(Entered("ord") \ Exited("ord"))
  /\ domain.activePayments = Cardinality(Entered("pay") \ Exited("pay"))
  /\ domain.orderDuration = Cardinality(Exited("ord"))
  /\ domain.paymentDuration = Cardinality(Exited("pay"))
  /\ DOMAIN domain.ordersTotal \subseteq {<<"completed">>, <<"failed">>}
  /\ DOMAIN domain.paymentsTotal \subseteq {<<"approved">>, <<"declined">>}
  /\ SeriesValue(domain.ordersTotal, "completed") =
       Cardinality({c \in Exited("ord") : chain[c].ord.res.statusCode = 200})
  /\ SeriesValue(domain.ordersTotal, "failed") =
       Cardinality({c \in Exited("ord") : chain[c].ord.res.statusCode # 200})
  /\ SeriesValue(domain.paymentsTotal, "approved") =
       Cardinality({c \in Exited("pay") : chain[c].pay.out.status = "approved"})
  /\ SeriesValue(domain.paymentsTotal, "declined") =
       Cardinality({c \in Exited("pay") : chain[c].pay.out.status = "declined"})
  /\ Entered("ord") = Exited("ord") => domain.activeOrders = 0
  /\ Entered("pay") = Exited("pay") => domain.activePayments = 0

\* An order failed after its caller had gone, its payment was declined, and
\* both gauges are back at 0.
C25_Witness ==
  \E c \in Chains :
    /\ chain[c].ord.pc = "done" /\ chain[c].pay.pc = "done"
    /\ chain[c].ord.res.aborted
    /\ SeriesValue(domain.ordersTotal, "failed") = 1
    /\ SeriesValue(domain.paymentsTotal, "declined") = 1
    /\ domain.activeOrders = 0 /\ domain.activePayments = 0

\* ---------------------------------------------------------------------
\* Configuration at startup.

\* What an operator may put in a variable: nothing, a usable endpoint, or
\* text that is not a URL.
EnvValues == {"", "http://staging:9000", "not a url"}

\* The operator sets or changes a variable, before or after the process
\* was started.
Setenv(name, v) ==
  /\ name \in EnvNames(svc)
  /\ proc' = [proc EXCEPT !.env = [n \in DOMAIN proc.env \cup {name} |->
                                    IF n = name THEN v ELSE proc.env[n]]]
  /\ UNCHANGED <<svc, impl, request, pc, res, listening, decremented,
                 activeRequests, activeRequestsGauge, httpRequestsTotal,
                 httpRequestDuration, trace, crashed, twin, script, chainVars>>

\* The operator removes a variable.
Unsetenv(name) ==
  /\ name \in DOMAIN proc.env
  /\ proc' = [proc EXCEPT !.env = [n \in DOMAIN proc.env \ {name} |-> proc.env[n]]]
  /\ UNCHANGED <<svc, impl, request, pc, res, listening, decremented,
                 activeRequests, activeRequestsGauge, httpRequestsTotal,
                 httpRequestDuration, trace, crashed, twin, script, chainVars>>

\* node app.js: tracing.js and app.js are evaluated once and the service
\* listens. Nothing inspects the values.
Start ==
  /\ ~proc.config.loaded
  /\ proc' = [proc EXCEPT !.config = LoadConfig(svc, impl, proc.env)]
  /\ UNCHANGED <<svc, impl, request, pc, res, listening, decremented,
                 activeRequests, activeRequestsGauge, httpRequestsTotal,
                 httpRequestDuration, trace, crashed, twin, script, chainVars>>

\* A process that has not been started yet, in an empty environment.
InitConfig ==
  /\ InitState
  /\ proc = NewProcess

NextConfig ==
  \/ \E name \in {"ORDER_SERVICE_URL", "PAYMENT_SERVICE_URL", "OTLP_ENDPOINT"},
        v \in EnvValues : Setenv(name, v)
  \/ \E name \in {"ORDER_SERVICE_URL", "PAYMENT_SERVICE_URL", "OTLP_ENDPOINT"} :
        Unsetenv(name)
  \/ Start

SpecConfig == InitConfig /\ [][NextConfig]_vars

\* A value an HTTP client or exporter can use as an endpoint.
IsUrl(v) ==
  v \in {"http://staging:9000", "http://order-service:8001",
         "http://payment-service:8002", "http://tempo:4318/v1/traces",
         "http://alloy:4318"}

\* C26: at startup every configuration value that is missing or invalid is
\* replaced by its fixed default, startup cannot fail on configuration,
\* and a loaded value is never read again.
C26_MissingOrInvalidUsesDefault ==
  [][/\ ~proc.config.loaded => ENABLED Start
     /\ proc.config.loaded => proc'.config = proc.config
     /\ (~proc.config.loaded /\ proc'.config.loaded) =>
          \A name \in EnvNames(svc) :
            (name \notin DOMAIN proc.env \/ ~IsUrl(proc.env[name]))
              => proc'.config.value[name] = DefaultOf(impl, name)]_vars

\* ---------------------------------------------------------------------
\* GET /api/error

\* The 'Request completed' lines among the entries of trace[r].
CompletedLines(r) ==
  {n \in 1..Len(trace[r]) : trace[r][n].ev = "Request completed"}

\* Request r is a GET /api/error of the gateway whose response was flushed.
CompletedError(r) ==
  /\ svc = "gateway"
  /\ request[r].method = "GET" /\ request[r].path = "/api/error"
  /\ res[r].finish

EnteredTracker == {r \in Req : Incs(r) >= 1}

\* The entered requests whose connection closed before 'finish'.
ClosedUnfinished == {r \in EnteredTracker : res[r].close /\ ~res[r].finish}

\* C28: with the observability middleware, in every reachable state the
\* number of tracked requests that entered equals the active-requests
\* gauge plus the requests-total counter summed over all its label sets
\* plus the number of requests that closed without finishing.
C28_RequestsConserved ==
  impl = "prom" =>
    Cardinality(EnteredTracker)
      = activeRequests + SumSeries(httpRequestsTotal)
          + Cardinality(ClosedUnfinished)

\* One request still in flight, one completed and one closed unfinished
\* would need three; with two: one completed, one closed without finish.
C28_Witness ==
  /\ impl = "prom"
  /\ activeRequests = 0
  /\ SumSeries(httpRequestsTotal) = 1
  /\ Cardinality(ClosedUnfinished) = 1
  /\ Cardinality(EnteredTracker) = 2

\* C29: for every (method, endpoint) pair the duration histogram counts as
\* many observations as the requests-total counter holds over all status
\* labels of that pair, in every state any interleaving of callbacks can
\* reach.
C29_HistogramMatchesCounter ==
  \A r \in Req :
    LET m == request[r].method
        e == request[r].path
        statuses == {k \in DOMAIN httpRequestsTotal : k[1] = m /\ k[2] = e}
    IN (IF <<m, e>> \in DOMAIN httpRequestDuration
          THEN httpRequestDuration[<<m, e>>] ELSE 0)
         = SumSeries([k \in statuses |-> httpRequestsTotal[k]])

\* Two requests of one (method, endpoint) pair completed with different
\* statuses while callbacks of both interleaved.
C29_Witness ==
  \E r, q \in Req :
    /\ r # q
    /\ impl = "prom"
    /\ request[r].method = request[q].method
    /\ request[r].path = request[q].path
    /\ res[r].finish /\ res[q].finish
    /\ res[r].statusCode # res[q].statusCode
    /\ <<request[r].method, request[r].path>> \in DOMAIN httpRequestDuration
    /\ httpRequestDuration[<<request[r].method, request[r].path>>] = 2

\* ---------------------------------------------------------------------
\* The two trackers side by side: createObservabilityMiddleware and the
\* inline middleware mounted on the same app, so that both see the same
\* entry, 'finish' and 'close' of every request.

\* Request r = <<m, p>> passes both middlewares, in either mounting order
\* the same: each increments its gauge and registers its two listeners.
PairEntry(r, m, p) ==
  /\ pc[r] = "new"
  /\ \A q \in Req : q < r => pc[q] # "new"
  /\ <<m, p>> \in Inputs(svc)
  /\ Tracked("prom", svc, p) /\ Tracked("otel", svc, p)
  /\ request' = [request EXCEPT ![r] = [method |-> m, path |-> p]]
  /\ activeRequests' = activeRequests + 1
  /\ activeRequestsGauge' = activeRequestsGauge + 1
  /\ listening' = [listening EXCEPT ![r] = TRUE]
  /\ trace' = [trace EXCEPT ![r] = EntryEvents("prom") \o EntryEvents("otel")]
  /\ pc' = [pc EXCEPT ![r] = "handler"]
  /\ UNCHANGED <<svc, impl, res, decremented, twin, httpRequestsTotal,
                 httpRequestDuration, crashed, proc, script, chainVars>>

\* The handler of r ends its response with the given status.
PairRespond(r, status) ==
  /\ pc[r] = "handler"
  /\ pc' = [pc EXCEPT ![r] = "done"]
  /\ res' = [res EXCEPT ![r] = Write(@, status)]
  /\ UNCHANGED <<svc, impl, request, listening, decremented, twin,
                 activeRequests, activeRequestsGauge, httpRequestsTotal,
                 httpRequestDuration, trace, crashed, proc, script, chainVars>>

\* 'finish' of res[r] runs the finish listener of each tracker. It is
\* emitted at most once; here it may even follow 'close'.
PairFinish(r) ==
  /\ listening[r]
  /\ res[r].writableEnded /\ ~res[r].finish
  /\ LET f == OnFinish(decremented[r], res[r].statusCode, request[r])
         g == OnSignalInline(twin[r])
     IN /\ decremented' = [decremented EXCEPT ![r] = f.decremented]
        /\ twin' = [twin EXCEPT ![r] = g.decremented]
        /\ activeRequests' = activeRequests - f.dec
        /\ activeRequestsGauge' = activeRequestsGauge - g.dec
        /\ httpRequestsTotal' =
             IF f.counter = 0 THEN httpRequestsTotal
             ELSE IncSeries(httpRequestsTotal,
                            <<request[r].method, request[r].path,
                              res[r].statusCode>>)
        /\ httpRequestDuration' =
             IF f.observe = 0 THEN httpRequestDuration
             ELSE IncSeries(httpRequestDuration,
                            <<request[r].method, request[r].path>>)
        /\ trace' = [trace EXCEPT ![r] = @ \o f.events \o g.events]
  /\ res' = [res EXCEPT ![r].finish = TRUE]
  /\ UNCHANGED <<svc, impl, request, pc, listening, crashed, proc, script, chainVars>>

\* 'close' of res[r] runs the close listener of each tracker, at most once.
PairClose(r) ==
  /\ listening[r]
  /\ ~res[r].close
  /\ LET f == OnClose(decremented[r], res[r].writableEnded)
         g == OnSignalInline(twin[r])
     IN /\ decremented' = [decremented EXCEPT ![r] = f.decremented]
        /\ twin' = [twin EXCEPT ![r] = g.decremented]
        /\ activeRequests' = activeRequests - f.dec
        /\ activeRequestsGauge' = activeRequestsGauge - g.dec
        /\ trace' = [trace EXCEPT ![r] = @ \o f.events \o g.events]
  /\ res' = [res EXCEPT ![r].close = TRUE,
                        ![r].aborted = ~res[r].writableEnded]
  /\ UNCHANGED <<svc, impl, request, pc, listening, httpRequestsTotal,
                 httpRequestDuration, crashed, proc, script, chainVars>>

\* One app per service with both trackers mounted.
InitPair == Init /\ impl = "prom"

NextPair ==
  \/ \E r \in Req, m \in {"GET", "POST"},
        p \in {"/", "/api/fast", "/api/error", "/api/order", "/orders",
               "/payments", "/health"} : PairEntry(r, m, p)
  \/ \E r \in Req, status \in {200, 500} : PairRespond(r, status)
  \/ \E r \in Req : PairFinish(r)
  \/ \E r \in Req : PairClose(r)

SpecPair == InitPair /\ [][NextPair]_vars

\* C30: on paths neither tracker exempts, after every entry, 'finish' and
\* 'close' of any requests in any order the Prometheus gauge active_requests
\* and the OpenTelemetry up-down counter http_active_requests hold the same
\* value.
C30_TrackersAgreeOnGauge ==
  /\ activeRequests = activeRequestsGauge
  /\ \A r \in Req : listening[r] => decremented[r] = twin[r]

\* One request released by 'finish' and closed afterwards, another
\* released by 'close' alone after its client went away; each tracker
\* decremented once per request and both gauges are back at 0.
C30_Witness ==
  /\ \E r, q \in Req :
       /\ res[r].finish /\ res[r].close
       /\ res[q].aborted /\ ~res[q].finish
       /\ CountEv(trace[r], "activeRequests.dec") = 1
       /\ CountEv(trace[r], "activeRequestsGauge.add(-1)") = 1
       /\ CountEv(trace[q], "activeRequests.dec") = 1
       /\ CountEv(trace[q], "activeRequestsGauge.add(-1)") = 1
  /\ activeRequests = 0 /\ activeRequestsGauge = 0

\* ---------------------------------------------------------------------
\* One response per request

\* The routes with a business handler.
BusinessRoutes == {"proxy", "orders", "payments"}

\* Request r is served by a business handler.
Business(r) ==
  Route(svc, impl, request[r].method, request[r].path) \in BusinessRoutes

\* C31: a business handler writes at most one response for a request on
\* every path -- success, structured error, transport failure, decline --
\* and once a response is written its status is never written again.
C31_AtMostOneResponse ==
  /\ [](\A r \in Req :
          Business(r) =>
            /\ CountEv(trace[r], "res.json") <= 1
            /\ res[r].writableEnded <=> CountEv(trace[r], "res.json") = 1)
  /\ [][\A r \in Req :
          (Business(r) /\ res[r].writableEnded) =>
            /\ res'[r].writableEnded
            /\ res'[r].statusCode = res[r].statusCode
            /\ CountEv(trace'[r], "res.json") = 1]_vars

\* An order whose payment call was answered with a structured error and
\* another whose call failed in transport, both answered once and flushed.
C31_Witness ==
  /\ svc = "order"
  /\ \E r, q \in Req :
       /\ Business(r) /\ Business(q)
       /\ res[r].statusCode = 400 /\ res[r].finish
       /\ res[q].statusCode = 500 /\ res[q].finish
       /\ CountEv(trace[r], "Payment failed") = 1
       /\ CountEv(trace[q], "Order processing error") = 1
       /\ CountEv(trace[r], "res.json") = 1
       /\ CountEv(trace[q], "res.json") = 1

\* ---------------------------------------------------------------------
\* Identifiers of concurrent orders

\* Orders the services handle at the same time.
MaxOrders == 2

Orders == 1..MaxOrders

\* The three services of one deployment with MaxOrders clients about to
\* post an order each.
InitIds ==
  /\ InitService
  /\ svc = "gateway" /\ impl = "prom"
  /\ chain = [c \in Orders |-> NewChain]
  /\ proc = [NewProcess EXCEPT !.config = LoadConfig(svc, impl, EmptyBody)]

\* The orders, all for the same amount, run over a network without faults.
NextIds ==
  \/ Tick
  \/ \E c \in Orders : GwArrive(c, [total |-> 4250])
  \/ \E c \in Orders : OrderArrive(c)
  \/ \E c \in Orders, random \in RandomTotals : OrderAfterSleep(c, random)
  \/ \E c \in Orders : PaymentArrive(c)
  \/ \E c \in Orders, declined \in BOOLEAN : PaymentAfterSleep(c, declined)
  \/ \E c \in Orders : OrderAfterCall(c)
  \/ \E c \in Orders : GwAfterCall(c)

SpecIds == InitIds /\ [][NextIds]_vars

\* C32: two distinct orders handled by the same order-service receive
\* distinct orderIds, and two distinct payments distinct paymentIds, also
\* when both are admitted within the same clock tick.
C32_IdsAreDistinct ==
  \A c, d \in DOMAIN chain :
    c # d =>
      /\ (chain[c].ord.orderId # <<>> /\ chain[d].ord.orderId # <<>>)
           => chain[c].ord.orderId # chain[d].ord.orderId
      /\ (chain[c].pay.paymentId # <<>> /\ chain[d].pay.paymentId # <<>>)
           => chain[c].pay.paymentId # chain[d].pay.paymentId

\* ---------------------------------------------------------------------
\* The traffic generator (generate_traffic.sh, both versions in the file)

\* Values of -n COUNT tried.
MaxCount == 2

\* The exit status of the arithmetic command ((X++)) when X holds value:
\* 1 when the expression evaluates to 0, which the post-increment does for
\* X = 0.
ArithStatus(value) == IF value = 0 THEN 1 ELSE 0

\* Whether the script runs under set -e: the second version does.
Errexit(g) == g.version = 2

\* The requests of iteration i, in the order the script issues them.
Requests(g, i) ==
  IF g.version = 1
    THEN <<"/", "/api/fast", "/api/slow", "/api/error", "/api/order">>
  ELSE IF g.ERROR_ONLY
    THEN IF g.BURST THEN [n \in 1..10 |-> "/api/error"] ELSE <<"/api/error">>
  ELSE IF g.BURST
    THEN <<"/", "/api/fast", "/api/fast", "/api/slow", "/api/order">>
  ELSE <<"/", "/api/fast", "/api/order">>
         \o (IF i % 5 = 0 THEN <<"/api/slow">> ELSE <<>>)
         \o (IF i % 7 = 0 THEN <<"/api/error">> ELSE <<>>)

\* The script after option parsing, before its loop.
NewGenerator(v, n, b, e) ==
  [name |-> "generate_traffic", version |-> v, COUNT |-> n, BURST |-> b,
   ERROR_ONLY |-> e, pc |-> "head", ITERATION |-> 0, todo |-> <<>>,
   jobs |-> 0, SUCCESS |-> 0, FAILURE |-> 0, sent |-> 0, completed |-> 0,
   status |-> -1,
   summary |-> [printed |-> FALSE, success |-> 0, failure |-> 0, total |-> 0]]

\* The shell gives up on a failing command under set -e: status 1, and no
\* summary since only SIGINT and SIGTERM are trapped.
Abort(g) == [g EXCEPT !.pc = "exited", !.status = 1]

\* An operator runs ./generate_traffic.sh -n n [-b] [-e]; the first version
\* has no -e.
RunGenerator(v, n, b, e) ==
  /\ script = NoScript
  /\ n \in 1..MaxCount
  /\ v = 1 => ~e
  /\ script' = NewGenerator(v, n, b, e)
  /\ UNCHANGED <<serviceVars, chainVars>>

\* The loop head: for i in $(seq 1 $COUNT) of the first version;
\* ((ITERATION++)) and the break test of the second.
GenHead ==
  /\ script.name = "generate_traffic" /\ script.pc = "head"
  /\ LET g == script
         i == g.ITERATION + 1
     IN script' =
          IF g.version = 1
            THEN IF g.ITERATION < g.COUNT
                   THEN [g EXCEPT !.ITERATION = i, !.todo = Requests(g, i),
                                  !.pc = "body"]
                   ELSE [g EXCEPT !.pc = "summary"]
          ELSE IF Errexit(g) /\ ArithStatus(g.ITERATION) # 0
            THEN Abort([g EXCEPT !.ITERATION = i])
          ELSE IF g.COUNT > 0 /\ i > g.COUNT
            THEN [g EXCEPT !.ITERATION = i, !.pc = "summary"]
          ELSE [g EXCEPT !.ITERATION = i, !.todo = Requests(g, i),
                         !.pc = "body"]
  /\ UNCHANGED <<serviceVars, chainVars>>

\* Where the loop body continues after one of its requests was issued.
AfterRequest(g) ==
  IF Len(g.todo) > 1 THEN [g EXCEPT !.todo = Tail(@)]
  ELSE IF g.BURST THEN [g EXCEPT !.todo = <<>>, !.pc = "wait"]
  ELSE [g EXCEPT !.todo = <<>>, !.pc = "head", !.completed = @ + 1]

\* send_request in the foreground: curl answers 2xx (ok) or not, the
\* matching counter is incremented with ((X++)), and the second version
\* returns 1 for a failure.
SendRequest(g, ok) ==
  LET counter == IF ok THEN "SUCCESS" ELSE "FAILURE"
      h == [g EXCEPT !.sent = @ + 1, ![counter] = @ + 1]
  IN IF Errexit(g) /\ (ArithStatus(g[counter]) # 0 \/ ~ok)
       THEN Abort(h)
       ELSE AfterRequest(h)

\* The next request of the iteration: send_request ... & in burst mode
\* starts a background job, otherwise the request is sent and counted.
GenSend(ok) ==
  /\ script.name = "generate_traffic" /\ script.pc = "body"
  /\ script' = IF script.BURST
                 THEN AfterRequest([script EXCEPT !.jobs = @ + 1])
                 ELSE SendRequest(script, ok)
  /\ UNCHANGED <<serviceVars, chainVars>>

\* A background send_request finishes. It ran in a subshell: its increment
\* of SUCCESS or FAILURE changed the subshell's copy, not the script's.
GenJobDone(ok) ==
  /\ script.name = "generate_traffic" /\ script.pc \in {"body", "wait"}
  /\ script.jobs > 0
  /\ script' = [script EXCEPT !.jobs = @ - 1, !.sent = @ + 1]
  /\ UNCHANGED <<serviceVars, chainVars>>

\* wait returns once every background job has finished.
GenWait ==
  /\ script.name = "generate_traffic" /\ script.pc = "wait"
  /\ script.jobs = 0
  /\ script' = [script EXCEPT !.pc = "head", !.completed = @ + 1]
  /\ UNCHANGED <<serviceVars, chainVars>>

\* The results block after the loop (cleanup in the second version).
GenSummary ==
  /\ script.name = "generate_traffic" /\ script.pc = "summary"
  /\ script' = [script EXCEPT
       !.summary = [printed |-> TRUE, success |-> script.SUCCESS,
                    failure |-> script.FAILURE,
                    total |-> script.SUCCESS + script.FAILURE],
       !.pc = "exited", !.status = 0]
  /\ UNCHANGED <<serviceVars, chainVars>>

InitTraffic == Init /\ svc = "gateway" /\ impl = "prom"

NextTraffic ==
  \/ \E v \in {1, 2}, n \in 1..MaxCount, b, e \in BOOLEAN :
        RunGenerator(v, n, b, e)
  \/ GenHead
  \/ \E ok \in BOOLEAN : GenSend(ok)
  \/ \E ok \in BOOLEAN : GenJobDone(ok)
  \/ GenWait
  \/ GenSummary

SpecTraffic == InitTraffic /\ [][NextTraffic]_vars

\* C33: a run with -n COUNT, COUNT >= 1, has performed exactly COUNT
\* iterations when it ends, and it ends with a results summary in which
\* Success + Failure = Total = the number of requests sent, in sequential
\* and in burst mode.
C33_SummaryMatchesRequestsSent ==
  (script.name = "generate_traffic" /\ script.pc = "exited") =>
    /\ script.completed = script.COUNT
    /\ script.summary.printed
    /\ script.summary.success + script.summary.failure = script.summary.total
    /\ script.summary.total = script.sent

\* ---------------------------------------------------------------------
\* The deployment script (k8s/deploy.sh)

\* main's default branch: the functions it calls, in order.
DeploySteps ==
  <<"check_prerequisites", "add_helm_repos", "create_namespace",
    "install_prometheus_stack", "install_loki", "install_tempo",
    "install_alloy", "apply_custom_configs", "deploy_apps",
    "install_ingress", "show_status">>

\* The external commands of a function, in order. ingress is the answer to
\* the prompt of install_ingress.
Commands(step, ingress) ==
  CASE step = "check_prerequisites" ->
         <<"command -v kubectl", "command -v helm", "kubectl cluster-info">>
    [] step = "add_helm_repos" ->
         <<"helm repo add prometheus-community", "helm repo add grafana",
           "helm repo update">>
    [] step = "create_namespace" -> <<"kubectl apply -f namespace.yaml">>
    [] step = "install_prometheus_stack" ->
         <<"helm upgrade --install kube-prometheus-stack">>
    [] step = "install_loki" -> <<"helm upgrade --install loki">>
    [] step = "install_tempo" -> <<"helm upgrade --install tempo">>
    [] step = "install_alloy" -> <<"helm upgrade --install alloy">>
    [] step = "apply_custom_configs" -> <<"kubectl apply -f custom/">>
    [] step = "deploy_apps" ->
         <<"kubectl apply -f apps/sample-app/",
           "kubectl apply -f apps/order-service/",
           "kubectl apply -f apps/payment-service/">>
    [] step = "install_ingress" ->
         <<"read INSTALL_INGRESS">>
         \o (IF ingress
               THEN <<"kubectl apply -f ingress-nginx deploy.yaml",
                      "kubectl wait ingress-nginx", "kubectl apply -f ingress.yaml">>
               ELSE <<>>)
    [] step = "show_status" ->
         <<"sleep 15", "helm list -n monitoring",
           "kubectl get pods -n monitoring", "kubectl get pods -n lgtm",
           "kubectl get svc -n monitoring", "kubectl get svc -n lgtm",
           "echo Deployment complete!", "kubectl get nodes">>
    [] step = "uninstall" ->
         <<"helm uninstall alloy", "helm uninstall tempo", "helm uninstall loki",
           "helm uninstall kube-prometheus-stack", "kubectl delete -f apps/",
           "kubectl delete -f custom/", "kubectl delete namespace monitoring",
           "kubectl delete namespace lgtm", "echo Uninstall complete">>

Tolerated_Everything(step, cmd) == TRUE

\* Whether the command is followed by || true (|| echo for kubectl get
\* nodes), so that its failure does not trip set -e. echo does not fail.
Tolerated(step, cmd) ==
  \/ step = "uninstall"
  \/ cmd \in {"helm repo add prometheus-community", "helm repo add grafana",
              "kubectl wait ingress-nginx", "kubectl get nodes",
              "echo Deployment complete!"}

\* The commands of a sequence of functions, one after the other.
RECURSIVE Plan(_, _)
Plan(steps, ingress) ==
  IF steps = <<>> THEN <<>>
  ELSE [n \in 1..Len(Commands(Head(steps), ingress)) |->
          [step |-> Head(steps), cmd |-> Commands(Head(steps), ingress)[n]]]
       \o Plan(Tail(steps), ingress)

\* case "${1:-}" in uninstall) ... ;; *) ... ;; esac, before its first
\* command.
NewDeploy(arg, ingress) ==
  [name |-> "deploy", arg |-> arg, ingress |-> ingress,
   plan |-> IF arg = "uninstall" THEN Plan(<<"uninstall">>, ingress)
                                 ELSE Plan(DeploySteps, ingress),
   ran |-> <<>>, pc |-> "running", status |-> -1]

\* An operator runs ./deploy.sh [uninstall].
RunDeploy(arg, ingress) ==
  /\ script = NoScript
  /\ arg = "uninstall" => ~ingress
  /\ script' = NewDeploy(arg, ingress)
  /\ UNCHANGED <<serviceVars, chainVars>>

\* The next command of the script runs and succeeds (ok) or fails. Under
\* set -e a failure that is not tolerated ends the script on the spot;
\* after the last command the script ends with status 0.
DeployCommand(ok) ==
  /\ script.name = "deploy" /\ script.pc = "running"
  /\ LET c == script.plan[Len(script.ran) + 1]
         ran == Append(script.ran, [step |-> c.step, cmd |-> c.cmd, ok |-> ok])
     IN /\ c.cmd \in {"echo Deployment complete!", "echo Uninstall complete"}
             => ok
        /\ script' =
             IF ~ok /\ ~Tolerated(c.step, c.cmd)
               THEN [script EXCEPT !.ran = ran, !.pc = "exited", !.status = 1]
             ELSE IF Len(ran) = Len(script.plan)
               THEN [script EXCEPT !.ran = ran, !.pc = "exited", !.status = 0]
             ELSE [script EXCEPT !.ran = ran]
  /\ UNCHANGED <<serviceVars, chainVars>>

InitDeploy == Init /\ svc = "gateway" /\ impl = "prom"

NextDeploy ==
  \/ \E arg \in {"", "uninstall"}, ingress \in BOOLEAN : RunDeploy(arg, ingress)
  \/ \E ok \in BOOLEAN : DeployCommand(ok)

\* Every command of the script returns sooner or later.
SpecDeploy ==
  InitDeploy /\ [][NextDeploy]_vars
    /\ WF_vars(\E ok \in BOOLEAN : DeployCommand(ok))

\* The commands the script has run so far.
Ran == {script.ran[n] : n \in 1..Len(script.ran)}

\* The functions entered so far, in order of their first command.
RECURSIVE StepsOf(_)
StepsOf(ran) ==
  IF ran = <<>> THEN <<>>
  ELSE LET before == StepsOf(SubSeq(ran, 1, Len(ran) - 1))
           s == ran[Len(ran)].step
       IN IF before # <<>> /\ before[Len(before)] = s THEN before
          ELSE Append(before, s)

\* The four Helm releases.
HelmInstalls ==
  {"helm upgrade --install kube-prometheus-stack", "helm upgrade --install loki",
   "helm upgrade --install tempo", "helm upgrade --install alloy"}

\* A step has failed when a command other than the idempotent
\* 'helm repo add', the optional wait for the ingress controller and the
\* node address lookup has failed.
DecidesStep(cmd) ==
  cmd \notin {"helm repo add prometheus-community", "helm repo add grafana",
              "kubectl wait ingress-nginx", "kubectl get nodes"}

\* C34: a deploy run enters its steps in the fixed order prerequisites,
\* Helm repos, namespace, kube-prometheus-stack, Loki, Tempo, Alloy, custom
\* configs, applications; a failed step is the last thing it does, with a
\* non-zero status; the applications are only deployed after all four Helm
\* releases were installed successfully. An uninstall run goes through
\* every removal whatever fails and ends with 'Uninstall complete'.
C34_DeployStopsUninstallCompletes ==
  /\ [](script.name = "deploy" /\ script.arg = "" =>
          /\ LET steps == StepsOf(script.ran)
             IN steps = SubSeq(DeploySteps, 1, Len(steps))
          /\ \A n \in 1..Len(script.ran) :
               (~script.ran[n].ok /\ DecidesStep(script.ran[n].cmd)) =>
                 /\ n = Len(script.ran)
                 /\ script.pc = "exited" /\ script.status # 0
          /\ (\E c \in Ran : c.step = "deploy_apps") =>
               \A h \in HelmInstalls : \E c \in Ran : c.cmd = h /\ c.ok)
  /\ [](script.name = "deploy" /\ script.arg = "uninstall"
          /\ script.pc = "exited" =>
          /\ script.status = 0
          /\ [n \in 1..Len(script.ran) |-> script.ran[n].cmd]
               = Commands("uninstall", FALSE)
          /\ \E c \in Ran : c.cmd = "echo Uninstall complete")
  /\ (script.name = "deploy" /\ script.arg = "uninstall")
       ~> (script.name = "deploy"
             /\ \E c \in Ran : c.cmd = "echo Uninstall complete")

\* A deploy run that tolerated a failed 'helm repo add', installed
\* kube-prometheus-stack and Loki, and stopped at the failed Tempo release
\* without touching the applications.
C34_Witness ==
  /\ script.name = "deploy" /\ script.arg = ""
  /\ script.pc = "exited" /\ script.status = 1
  /\ \E c \in Ran : c.cmd = "helm repo add grafana" /\ ~c.ok
  /\ \E c \in Ran : c.cmd = "helm upgrade --install loki" /\ c.ok
  /\ script.ran[Len(script.ran)].cmd = "helm upgrade --install tempo"
  /\ ~script.ran[Len(script.ran)].ok
  /\ ~\E c \in Ran : c.step \in {"install_alloy", "deploy_apps"}

====
